---- MODULE Spec2Model ----
(***************************************************************************)
(* minitradutor: the translation-contract pipeline (translate.ts), the     *)
(* NDJSON ledger (ledger.ts) and the legacy writer (contract.ts).          *)
(*                                                                         *)
(* Text is modelled as a sequence of characters.  A character is a TLA+    *)
(* string: the characters the code treats specially have a name (LF,       *)
(* QUOTE, ...), every other string stands for one ordinary character.      *)
(* A JSON value is a tagged record: [t |-> "str", v |-> text],             *)
(* [t |-> "num", v |-> hundredths], [t |-> "obj", v |-> members] with       *)
(* members a sequence of <<key, value>> in insertion order, and            *)
(* [t |-> "undef"] for the JavaScript value undefined.                     *)
(***************************************************************************)
EXTENDS Integers, Sequences, FiniteSets, TLC

\* ------------------------------------------------------------------------
\* Characters
\* ------------------------------------------------------------------------

LF == "LF"
QUOTE == "QUOTE"
BSLASH == "BSLASH"
SPACE == "SPACE"
LBRACE == "LBRACE"
RBRACE == "RBRACE"
COLON == "COLON"
COMMA == "COMMA"

\* What String.prototype.trim removes and what JSON.parse skips between tokens.
Whitespace == {SPACE, LF}

\* ------------------------------------------------------------------------
\* JSON values
\* ------------------------------------------------------------------------

JStr(s) == [t |-> "str", v |-> s]
JNum(n) == [t |-> "num", v |-> n]
JObj(members) == [t |-> "obj", v |-> members]
JUndef == [t |-> "undef"]
JArr(items) == [t |-> "arr", v |-> items]

IsStr(j) == j.t = "str"
IsNum(j) == j.t = "num"
IsObj(j) == j.t = "obj"

\* o[k] of JavaScript: the value of the last member named k, undefined if none.
RECURSIVE GetFrom(_, _, _)
GetFrom(members, k, i) ==
  IF i = 0 THEN JUndef
  ELSE IF members[i][1] = k THEN members[i][2]
  ELSE GetFrom(members, k, i - 1)

Get(o, k) == IF IsObj(o) THEN GetFrom(o.v, k, Len(o.v)) ELSE JUndef

\* ------------------------------------------------------------------------
\* Numbers: a confidence is held in hundredths; its JSON text is one token.
\* ------------------------------------------------------------------------

NumberTokens == << <<-10, "-0.1">>, <<0, "0">>, <<50, "0.5">>, <<95, "0.95">>,
                   <<100, "1">>, <<150, "1.5">> >>

Numbers == {NumberTokens[i][1] : i \in DOMAIN NumberTokens}

NumberTexts == {NumberTokens[i][2] : i \in DOMAIN NumberTokens}

\* Number-to-text of JSON.stringify.
NumToText(n) ==
  NumberTokens[CHOOSE i \in DOMAIN NumberTokens : NumberTokens[i][1] = n][2]

\* Text-to-number of JSON.parse.
TextToNum(c) ==
  NumberTokens[CHOOSE i \in DOMAIN NumberTokens : NumberTokens[i][2] = c][1]

\* ------------------------------------------------------------------------
\* JSON.stringify (compact form: no indent argument)
\* ------------------------------------------------------------------------

\* A stringify that writes every character raw.
EscapeCharRaw(c) == <<c>>

\* QuoteJSONString: the escapes of the characters that cannot stand raw.
EscapeChar(c) ==
  CASE c = QUOTE -> <<BSLASH, QUOTE>>
    [] c = BSLASH -> <<BSLASH, BSLASH>>
    [] c = LF -> <<BSLASH, "n">>
    [] OTHER -> <<c>>

RECURSIVE Escape(_)
Escape(s) == IF s = <<>> THEN <<>> ELSE EscapeChar(Head(s)) \o Escape(Tail(s))

RECURSIVE JSONStringify(_)
RECURSIVE StringifyMembers(_, _, _)
\* Members i..Len of an object; a member whose value is undefined is skipped.
StringifyMembers(members, i, first) ==
  IF i > Len(members) THEN <<>>
  ELSE IF members[i][2].t = "undef" THEN StringifyMembers(members, i + 1, first)
  ELSE (IF first THEN <<>> ELSE <<COMMA>>)
       \o <<QUOTE>> \o Escape(members[i][1]) \o <<QUOTE, COLON>>
       \o JSONStringify(members[i][2])
       \o StringifyMembers(members, i + 1, FALSE)

JSONStringify(j) ==
  CASE j.t = "str" -> <<QUOTE>> \o Escape(j.v) \o <<QUOTE>>
    [] j.t = "num" -> <<NumToText(j.v)>>
    [] j.t = "obj" -> <<LBRACE>> \o StringifyMembers(j.v, 1, TRUE) \o <<RBRACE>>

\* ------------------------------------------------------------------------
\* JSON.parse
\* ------------------------------------------------------------------------

ParseFail == [ok |-> FALSE, val |-> JUndef, next |-> 0]
ParseOk(val, next) == [ok |-> TRUE, val |-> val, next |-> next]

RECURSIVE SkipWs(_, _)
SkipWs(s, i) == IF i <= Len(s) /\ s[i] \in Whitespace THEN SkipWs(s, i + 1) ELSE i

\* The characters of a string literal from position i (after the opening
\* quote) to its closing quote, with the escapes undone.
RECURSIVE ScanString(_, _, _)
ScanString(s, i, acc) ==
  IF i > Len(s) THEN ParseFail
  ELSE IF s[i] = QUOTE THEN ParseOk(JStr(acc), i + 1)
  ELSE IF s[i] = LF THEN ParseFail
  ELSE IF s[i] = BSLASH THEN
    IF i + 1 > Len(s) THEN ParseFail
    ELSE CASE s[i + 1] = QUOTE -> ScanString(s, i + 2, Append(acc, QUOTE))
           [] s[i + 1] = BSLASH -> ScanString(s, i + 2, Append(acc, BSLASH))
           [] s[i + 1] = "n" -> ScanString(s, i + 2, Append(acc, LF))
           [] OTHER -> ParseFail
  ELSE ScanString(s, i + 1, Append(acc, s[i]))

RECURSIVE ParseValue(_, _)
RECURSIVE ParseMembers(_, _, _)
\* The members of an object from position i (a key is expected there).
ParseMembers(s, i, acc) ==
  LET k == SkipWs(s, i) IN
  IF k > Len(s) \/ s[k] # QUOTE THEN ParseFail
  ELSE LET key == ScanString(s, k + 1, <<>>) IN
    IF ~key.ok THEN ParseFail
    ELSE LET c == SkipWs(s, key.next) IN
      IF c > Len(s) \/ s[c] # COLON THEN ParseFail
      ELSE LET val == ParseValue(s, SkipWs(s, c + 1)) IN
        IF ~val.ok THEN ParseFail
        ELSE LET e == SkipWs(s, val.next)
                 got == Append(acc, <<key.val.v, val.val>>) IN
          IF e > Len(s) THEN ParseFail
          ELSE IF s[e] = COMMA THEN ParseMembers(s, e + 1, got)
          ELSE IF s[e] = RBRACE THEN ParseOk(JObj(got), e + 1)
          ELSE ParseFail

ParseValue(s, i) ==
  IF i > Len(s) THEN ParseFail
  ELSE IF s[i] = QUOTE THEN ScanString(s, i + 1, <<>>)
  ELSE IF s[i] \in NumberTexts THEN ParseOk(JNum(TextToNum(s[i])), i + 1)
  ELSE IF s[i] = LBRACE THEN
    LET k == SkipWs(s, i + 1) IN
    IF k <= Len(s) /\ s[k] = RBRACE THEN ParseOk(JObj(<<>>), k + 1)
    ELSE ParseMembers(s, i + 1, <<>>)
  ELSE ParseFail

\* JSON.parse(text): one value, whitespace around it, nothing else.
JSONParse(s) ==
  LET r == ParseValue(s, SkipWs(s, 1)) IN
  IF r.ok /\ SkipWs(s, r.next) > Len(s) THEN r ELSE ParseFail

\* ------------------------------------------------------------------------
\* utils/time.ts, utils/hash.ts
\* ------------------------------------------------------------------------

\* Date.now().toString() at clock reading t.
ClockText(t) == <<ToString(t)>>

\* new Date().toISOString() at clock reading t.
generateTimestamp(t) == <<"1970-01-01T00:00:00.00" \o ToString(t) \o "Z">>

HexDigits == <<"0", "1", "2", "3", "4", "5", "6", "7",
               "8", "9", "a", "b", "c", "d", "e", "f">>

\* The characters of the model, in a fixed order: a character's code is its
\* place in this list (0 for any other character).
Alphabet == <<LF, QUOTE, BSLASH, SPACE, LBRACE, RBRACE, COLON, COMMA, "_",
              "a", "b", "n", "en", "pt", "wf", "fl", "t1", "0", "1", "2", "3">>

CharCode(c) ==
  IF \E i \in DOMAIN Alphabet : Alphabet[i] = c
  THEN CHOOSE i \in DOMAIN Alphabet : Alphabet[i] = c
  ELSE 0

\* The number of hexadecimal characters of the hash a contract id keeps.
IdHexLen == 6

\* The first IdHexLen hexadecimal characters of generateHash(input), as a
\* number.  SHA-256 itself is abstracted to a deterministic function of the
\* characters of its input (a polynomial in their codes).
RECURSIVE HashPrefix(_, _)
HashPrefix(input, h) ==
  IF input = <<>> THEN h
  ELSE HashPrefix(Tail(input), (h * 31 + CharCode(Head(input)) + 7) % (16 ^ IdHexLen))

RECURSIVE HexText(_, _)
HexText(n, len) ==
  IF len = 0 THEN <<>>
  ELSE Append(HexText(n \div 16, len - 1), HexDigits[(n % 16) + 1])

\* generateContractId(content) at clock reading t.
generateContractId(content, t) ==
  LET combined == content \o <<"_">> \o ClockText(t) IN
  <<"trans_">> \o HexText(HashPrefix(combined, 0), IdHexLen)

\* ------------------------------------------------------------------------
\* translate.ts: the contract builder of the pipeline
\* ------------------------------------------------------------------------

Key(name) == <<name>>

ENABLE_SIGNING == FALSE

\* A buildProvenance that stamps a default tenant.
buildProvenanceDefaultTenant(tenant_id, t) ==
  JObj(<< <<Key("timestamp"), JStr(generateTimestamp(t))>>,
          <<Key("tenant_id"), JStr(<<"default">>)>>,
          <<Key("signature"), JStr(<<>>)>> >>)

\* buildProvenance(tenant_id), the clock read at t.
buildProvenance(tenant_id, t) ==
  JObj(<< <<Key("timestamp"), JStr(generateTimestamp(t))>>,
          <<Key("tenant_id"), JStr(tenant_id)>>,
          <<Key("signature"),
            JStr(IF ENABLE_SIGNING THEN <<"<todo-signature>">> ELSE <<>>)>> >>)

\* A content for the id that leaves the text out.
ContentForIdWithoutText(input) ==
  input.source_language \o <<"_">> \o input.target_language

\* The string buildContract hands to generateContractId.
ContentForId(input) ==
  input.source_language \o <<"_">> \o input.target_language
    \o <<"_">> \o input.source_text

\* A buildContract that copies the source text where the translation belongs.
buildContractEchoingSource(input, translatedText, confidence, idTime, tsTime) ==
  JObj(<< <<Key("id"), JStr(generateContractId(ContentForId(input), idTime))>>,
          <<Key("workflow"), JStr(input.workflow)>>,
          <<Key("flow"), JStr(input.flow)>>,
          <<Key("source_language"), JStr(input.source_language)>>,
          <<Key("target_language"), JStr(input.target_language)>>,
          <<Key("source_text"), JStr(input.source_text)>>,
          <<Key("translated_text"), JStr(input.source_text)>>,
          <<Key("translator"), input.translator>>,
          <<Key("method"), JStr(input.method)>>,
          <<Key("confidence"), JNum(confidence)>>,
          <<Key("provenance"), buildProvenance(input.tenant_id, tsTime)>> >>)

\* A buildContract whose id covers the tenant as well.
buildContractTenantInId(input, translatedText, confidence, idTime, tsTime) ==
  JObj(<< <<Key("id"), JStr(generateContractId(ContentForId(input) \o <<"_">>
                                                 \o input.tenant_id, idTime))>>,
          <<Key("workflow"), JStr(input.workflow)>>,
          <<Key("flow"), JStr(input.flow)>>,
          <<Key("source_language"), JStr(input.source_language)>>,
          <<Key("target_language"), JStr(input.target_language)>>,
          <<Key("source_text"), JStr(input.source_text)>>,
          <<Key("translated_text"), JStr(translatedText)>>,
          <<Key("translator"), input.translator>>,
          <<Key("method"), JStr(input.method)>>,
          <<Key("confidence"), JNum(confidence)>>,
          <<Key("provenance"), buildProvenance(input.tenant_id, tsTime)>> >>)

\* buildContract(input, translatedText, confidence); idTime is the clock
\* reading inside generateContractId, tsTime the one inside buildProvenance.
buildContract(input, translatedText, confidence, idTime, tsTime) ==
  JObj(<< <<Key("id"), JStr(generateContractId(ContentForId(input), idTime))>>,
          <<Key("workflow"), JStr(input.workflow)>>,
          <<Key("flow"), JStr(input.flow)>>,
          <<Key("source_language"), JStr(input.source_language)>>,
          <<Key("target_language"), JStr(input.target_language)>>,
          <<Key("source_text"), JStr(input.source_text)>>,
          <<Key("translated_text"), JStr(translatedText)>>,
          <<Key("translator"), input.translator>>,
          <<Key("method"), JStr(input.method)>>,
          <<Key("confidence"), JNum(confidence)>>,
          <<Key("provenance"), buildProvenance(input.tenant_id, tsTime)>> >>)

\* const envelope = { contract }
MakeEnvelope(contract) == JObj(<< <<Key("contract"), contract>> >>)

\* ------------------------------------------------------------------------
\* schema.json: the structural schema of the envelope (compiled with
\* allErrors, so every violation is reported)
\* ------------------------------------------------------------------------

Methods == {<<"human">>, <<"machine">>, <<"hybrid">>}

ContractStringFields == <<"id", "workflow", "flow", "source_language",
                          "target_language", "source_text", "translated_text">>

ProvenanceStringFields == <<"timestamp", "tenant_id", "signature">>

\* One error of the validator: `${err.instancePath} ${err.message}`.
SchemaError(path, message) == <<path, SPACE, message>>

IsUndef(j) == j.t = "undef"

\* required + type for one property k of the object o found at path.
PropertyErrors(o, path, k, type) ==
  LET val == Get(o, Key(k)) IN
  IF IsUndef(val)
  THEN <<SchemaError(path, "must have required property '" \o k \o "'")>>
  ELSE IF val.t # type
  THEN <<SchemaError(path \o "/" \o k, "must be " \o type)>>
  ELSE <<>>

RECURSIVE FieldsErrors(_, _, _, _)
FieldsErrors(o, path, fields, i) ==
  IF i > Len(fields) THEN <<>>
  ELSE PropertyErrors(o, path, fields[i], "str") \o FieldsErrors(o, path, fields, i + 1)

ProvenanceErrors(c) ==
  LET p == Get(c, Key("provenance")) IN
  IF IsObj(p) THEN FieldsErrors(p, "/contract/provenance", ProvenanceStringFields, 1)
  ELSE PropertyErrors(c, "/contract", "provenance", "obj")

MethodErrors(c) ==
  LET m == Get(c, Key("method")) IN
  IF IsStr(m) /\ m.v \notin Methods
  THEN <<SchemaError("/contract/method", "must be equal to one of the allowed values")>>
  ELSE PropertyErrors(c, "/contract", "method", "str")

TranslatorErrors(c) ==
  LET tr == Get(c, Key("translator")) IN
  IF IsUndef(tr) \/ IsStr(tr) THEN <<>>
  ELSE <<SchemaError("/contract/translator", "must be str")>>

\* The errors of the members of a contract.
ContractErrors(c) ==
  FieldsErrors(c, "/contract", ContractStringFields, 1)
    \o TranslatorErrors(c)
    \o MethodErrors(c)
    \o PropertyErrors(c, "/contract", "confidence", "num")
    \o ProvenanceErrors(c)

\* validate.errors for an envelope: empty exactly when validate(envelope) is true.
SchemaErrors(envelope) ==
  IF ~IsObj(envelope) THEN <<SchemaError("", "must be obj")>>
  ELSE LET c == Get(envelope, Key("contract")) IN
    IF ~IsObj(c) THEN PropertyErrors(envelope, "", "contract", "obj")
    ELSE ContractErrors(c)

\* ------------------------------------------------------------------------
\* ledger.ts: validateEnvelope
\* ------------------------------------------------------------------------

\* errors.map(...).join(", ")
RECURSIVE JoinErrors(_, _)
JoinErrors(errors, i) ==
  IF i > Len(errors) THEN <<>>
  ELSE (IF i = 1 THEN <<>> ELSE <<COMMA, SPACE>>) \o errors[i] \o JoinErrors(errors, i + 1)

\* !x of JavaScript for the values of the model.
Falsy(j) ==
  \/ j.t = "undef"
  \/ j.t = "str" /\ j.v = <<>>
  \/ j.t = "num" /\ j.v = 0

Valid == [ok |-> TRUE, message |-> <<>>]
Invalid(message) == [ok |-> FALSE, message |-> message]

TranslatorRequiredMessage ==
  <<"translator field is required when method is 'human' or 'hybrid'">>

ConfidenceRangeMessage == <<"confidence must be between 0.0 and 1.0">>

\* Business rules that forget the translator.
BusinessRulesConfidenceOnly(contract) ==
  LET confidence == Get(contract, Key("confidence")) IN
  IF confidence.v < 0 \/ confidence.v > 100
  THEN Invalid(ConfidenceRangeMessage)
  ELSE Valid

\* Business rules that take the interval as open: 0 and 1 are rejected too.
BusinessRulesOpenRange(contract) ==
  LET method == Get(contract, Key("method"))
      translator == Get(contract, Key("translator"))
      confidence == Get(contract, Key("confidence")) IN
  IF (method = JStr(<<"human">>) \/ method = JStr(<<"hybrid">>)) /\ Falsy(translator)
  THEN Invalid(TranslatorRequiredMessage)
  ELSE IF confidence.v <= 0 \/ confidence.v >= 100
  THEN Invalid(ConfidenceRangeMessage)
  ELSE Valid

\* Business rules that ask for a translator only when the member is absent.
BusinessRulesAbsentOnly(contract) ==
  LET method == Get(contract, Key("method"))
      translator == Get(contract, Key("translator"))
      confidence == Get(contract, Key("confidence")) IN
  IF (method = JStr(<<"human">>) \/ method = JStr(<<"hybrid">>)) /\ IsUndef(translator)
  THEN Invalid(TranslatorRequiredMessage)
  ELSE IF confidence.v < 0 \/ confidence.v > 100
  THEN Invalid(ConfidenceRangeMessage)
  ELSE Valid

\* Business rules that test the confidence before the translator.
BusinessRulesConfidenceFirst(contract) ==
  LET method == Get(contract, Key("method"))
      translator == Get(contract, Key("translator"))
      confidence == Get(contract, Key("confidence")) IN
  IF confidence.v < 0 \/ confidence.v > 100
  THEN Invalid(ConfidenceRangeMessage)
  ELSE IF (method = JStr(<<"human">>) \/ method = JStr(<<"hybrid">>)) /\ Falsy(translator)
  THEN Invalid(TranslatorRequiredMessage)
  ELSE Valid

\* The business rules, in the order of the code: translator, then confidence.
BusinessRules(contract) ==
  LET method == Get(contract, Key("method"))
      translator == Get(contract, Key("translator"))
      confidence == Get(contract, Key("confidence")) IN
  IF (method = JStr(<<"human">>) \/ method = JStr(<<"hybrid">>)) /\ Falsy(translator)
  THEN Invalid(TranslatorRequiredMessage)
  ELSE IF confidence.v < 0 \/ confidence.v > 100
  THEN Invalid(ConfidenceRangeMessage)
  ELSE Valid

\* A validateEnvelope whose validator stops at the first error (allErrors off).
validateEnvelopeFirstError(envelope) ==
  LET errors == SchemaErrors(envelope) IN
  IF errors # <<>>
  THEN Invalid(<<"Invalid translation contract envelope: ">> \o errors[1])
  ELSE BusinessRules(Get(envelope, Key("contract")))

\* validateEnvelope(envelope): Valid, or the Error it throws.
validateEnvelope(envelope) ==
  LET errors == SchemaErrors(envelope) IN
  IF errors # <<>>
  THEN Invalid(<<"Invalid translation contract envelope: ">> \o JoinErrors(errors, 1))
  ELSE BusinessRules(Get(envelope, Key("contract")))

\* ------------------------------------------------------------------------
\* Strings
\* ------------------------------------------------------------------------

\* String.prototype.trim: what lies between the first and the last character
\* that is not white space.
Trim(s) ==
  LET kept == {i \in DOMAIN s : s[i] \notin Whitespace} IN
  IF kept = {} THEN <<>>
  ELSE SubSeq(s, CHOOSE i \in kept : \A j \in kept : i <= j,
                 CHOOSE i \in kept : \A j \in kept : j <= i)

\* s.split("\n"): the pieces between the line feeds (one piece, empty, for "").
Split(s) ==
  LET feeds == {i \in DOMAIN s : s[i] = LF}
      ends == feeds \cup {Len(s) + 1}
      EndOf(k) == CHOOSE e \in ends : Cardinality({f \in ends : f < e}) = k - 1
      StartOf(k) == IF k = 1 THEN 1 ELSE EndOf(k - 1) + 1
  IN [k \in 1 .. Cardinality(ends) |-> SubSeq(s, StartOf(k), EndOf(k) - 1)]

\* ------------------------------------------------------------------------
\* Bounds and inputs
\* ------------------------------------------------------------------------

\* Calls of translateRequest or saveLedgerEntry in one run (each may be in
\* flight together with the others).
MaxCalls == 2

\* The last reading of the millisecond clock.
MaxClock == 1

\* Calls of readLedger in one run.
MaxReads == 1

\* The calls that may write, the calls of readLedger, and all of them.
Calls == 1 .. MaxCalls
Reads == MaxCalls + 1 .. MaxCalls + MaxReads
AllCalls == Calls \cup Reads

Request(text, method, translator, tenant) ==
  [source_language |-> <<"en">>, target_language |-> <<"pt">>,
   source_text |-> text, workflow |-> <<"wf">>, flow |-> <<"fl">>,
   tenant_id |-> tenant, method |-> method, translator |-> translator]

NoRequest == Request(<<>>, <<>>, JUndef, <<>>)

\* A provider handed to translateRequest: what its translate does when called
\* (providers/mock.ts: shouldFail, the translation, fixedConfidence).
Provider(shouldFail, text, confidence) ==
  [shouldFail |-> shouldFail, translatedText |-> text, confidence |-> confidence]

NoProvider == Provider(FALSE, <<>>, 0)

MockError == <<"Mock translation failed (simulated)">>

GoodProvider == Provider(FALSE, <<"b", LF, "b">>, 95)
OverconfidentProvider == Provider(FALSE, <<"b">>, 150)
FailingProvider == Provider(TRUE, <<>>, 0)

MachineRequest == Request(<<"a", LF, QUOTE, BSLASH, "n">>, <<"machine">>, JUndef, <<"t1">>)
HumanRequest == Request(<<"a">>, <<"human">>, JStr(<<"b">>), <<"t1">>)
NoTranslatorRequest == Request(<<"a">>, <<"human">>, JUndef, <<"t1">>)
EmptyTranslatorRequest == Request(<<"a">>, <<"hybrid">>, JStr(<<>>), <<"t1">>)

\* The calls translateRequest(provider, input) made.
Invocations ==
  { <<GoodProvider, MachineRequest>>,
    <<OverconfidentProvider, MachineRequest>>,
    <<FailingProvider, MachineRequest>>,
    <<GoodProvider, HumanRequest>>,
    <<GoodProvider, NoTranslatorRequest>>,
    <<GoodProvider, EmptyTranslatorRequest>> }

\* ------------------------------------------------------------------------
\* State
\* ------------------------------------------------------------------------

VARIABLES
  now,            \* the reading of the millisecond clock
  dirExists,      \* whether the directory ./output exists
  ledger,         \* the file ./output/contracts.ndjson: [exists, content]
  validator,      \* ledger.ts: ajvInstance && validateFunction are set
  pc,             \* per call: where the call stands
  kind,           \* per call: the function called
  input,          \* per call: translateRequest's input
  provider,       \* per call: translateRequest's provider
  idTime,         \* per call: the clock reading inside generateContractId
  envelope,       \* per call: the envelope handed to saveLedgerEntry
  value,          \* per call: the value the call resolved with
  error,          \* per call: the message of the Error the call rejected with
  translateCalls, \* per call: how often provider.translate was invoked
  appended        \* the envelopes ledger.ts has written, in order

vars == <<now, dirExists, ledger, validator, pc, kind, input, provider, idTime,
          envelope, value, error, translateCalls, appended>>

LEDGER_PATH == "./output/contracts.ndjson"

NoFile == [exists |-> FALSE, content |-> <<>>]
File(content) == [exists |-> TRUE, content |-> content]

\* The process starts: nothing is cached and no call is made yet.
Started ==
  /\ now = 0
  /\ validator = FALSE
  /\ pc = [c \in AllCalls |-> "idle"]
  /\ kind = [c \in AllCalls |-> "none"]
  /\ input = [c \in AllCalls |-> NoRequest]
  /\ provider = [c \in AllCalls |-> NoProvider]
  /\ idTime = [c \in AllCalls |-> 0]
  /\ envelope = [c \in AllCalls |-> JUndef]
  /\ value = [c \in AllCalls |-> JUndef]
  /\ error = [c \in AllCalls |-> <<>>]
  /\ translateCalls = [c \in AllCalls |-> 0]
  /\ appended = <<>>

\* A fresh checkout: ./output does not exist.
Init ==
  /\ Started
  /\ dirExists = FALSE
  /\ ledger = NoFile

\* Time passes while a call waits for something it reads the clock after
\* (the provider, the digest); elsewhere the clock is not looked at.
Tick ==
  /\ now < MaxClock
  /\ \E c \in Calls : pc[c] \in {"translate", "hash"}
  /\ now' = now + 1
  /\ UNCHANGED <<dirExists, ledger, validator, pc, kind, input, provider, idTime,
                 envelope, value, error, translateCalls, appended>>

\* Calls are numbered in the order they start, the calls of readLedger apart.
MayStart(c) ==
  /\ pc[c] = "idle"
  /\ IF c = 1 \/ c = MaxCalls + 1 THEN TRUE ELSE pc[c - 1] # "idle"

\* ------------------------------------------------------------------------
\* translate.ts: translateRequest, up to the call of saveLedgerEntry
\* ------------------------------------------------------------------------

\* translateRequest(provider, input) is called: provider.translate is invoked
\* at once and awaited.
Invoke(c, p, r) ==
  /\ MayStart(c)
  /\ pc' = [pc EXCEPT ![c] = "translate"]
  /\ kind' = [kind EXCEPT ![c] = "translateRequest"]
  /\ input' = [input EXCEPT ![c] = r]
  /\ provider' = [provider EXCEPT ![c] = p]
  /\ translateCalls' = [translateCalls EXCEPT ![c] = @ + 1]
  /\ UNCHANGED <<now, dirExists, ledger, validator, idTime, envelope, value,
                 error, appended>>

\* provider.translate resolves: buildContract starts, generateContractId reads
\* the clock and awaits the digest.
ProviderResolve(c) ==
  /\ pc[c] = "translate"
  /\ ~provider[c].shouldFail
  /\ idTime' = [idTime EXCEPT ![c] = now]
  /\ pc' = [pc EXCEPT ![c] = "hash"]
  /\ UNCHANGED <<now, dirExists, ledger, validator, kind, input, provider,
                 envelope, value, error, translateCalls, appended>>

\* A translateRequest that catches the provider's error and throws its own.
ProviderRejectWrapped(c) ==
  /\ pc[c] = "translate"
  /\ provider[c].shouldFail
  /\ error' = [error EXCEPT ![c] = <<"Translation failed: ">> \o MockError]
  /\ pc' = [pc EXCEPT ![c] = "failed"]
  /\ UNCHANGED <<now, dirExists, ledger, validator, kind, input, provider, idTime,
                 envelope, value, translateCalls, appended>>

\* provider.translate rejects: nothing catches, translateRequest rejects with
\* the same Error.
ProviderReject(c) ==
  /\ pc[c] = "translate"
  /\ provider[c].shouldFail
  /\ error' = [error EXCEPT ![c] = MockError]
  /\ pc' = [pc EXCEPT ![c] = "failed"]
  /\ UNCHANGED <<now, dirExists, ledger, validator, kind, input, provider, idTime,
                 envelope, value, translateCalls, appended>>

\* ------------------------------------------------------------------------
\* ledger.ts: saveLedgerEntry
\* ------------------------------------------------------------------------

\* A saveLedgerEntry that writes whatever it is handed.
ValidatedLenient(c, env) ==
  /\ pc' = [pc EXCEPT ![c] = "mkdir"]
  /\ envelope' = [envelope EXCEPT ![c] = env]
  /\ error' = error

\* validateEnvelope with the validator at hand: the call throws, or goes on
\* to stringify the envelope and to await Deno.mkdir.
Validated(c, env) ==
  LET v == validateEnvelope(env) IN
  IF v.ok
  THEN /\ pc' = [pc EXCEPT ![c] = "mkdir"]
       /\ envelope' = [envelope EXCEPT ![c] = env]
       /\ error' = error
  ELSE /\ pc' = [pc EXCEPT ![c] = "failed"]
       /\ envelope' = [envelope EXCEPT ![c] = env]
       /\ error' = [error EXCEPT ![c] = v.message]

\* saveLedgerEntry(env) is entered: getValidator returns the cached validator
\* or awaits the read of schema.json.
EnterSave(c, env) ==
  IF validator
  THEN Validated(c, env)
  ELSE /\ pc' = [pc EXCEPT ![c] = "schema"]
       /\ envelope' = [envelope EXCEPT ![c] = env]
       /\ error' = error

\* A translateRequest that keeps the request in a variable of the module:
\* the contract is built from the request of the call that started last.
HashDoneSharedInput(c) ==
  LET last == CHOOSE d \in Calls :
                /\ kind[d] = "translateRequest"
                /\ \A e \in Calls : kind[e] = "translateRequest" => e <= d IN
  /\ pc[c] = "hash"
  /\ kind[c] = "translateRequest"
  /\ EnterSave(c, MakeEnvelope(buildContract(input[last], provider[c].translatedText,
                                             provider[c].confidence, idTime[c], now)))
  /\ idTime' = [idTime EXCEPT ![c] = 0]
  /\ UNCHANGED <<now, dirExists, ledger, validator, kind, input, provider, value,
                 translateCalls, appended>>

\* The digest resolves: the contract is built (buildProvenance reads the clock)
\* and wrapped, and saveLedgerEntry is called with the envelope.
HashDone(c) ==
  /\ pc[c] = "hash"
  /\ kind[c] = "translateRequest"
  /\ EnterSave(c, MakeEnvelope(buildContract(input[c], provider[c].translatedText,
                                             provider[c].confidence, idTime[c], now)))
  /\ idTime' = [idTime EXCEPT ![c] = 0]
  /\ UNCHANGED <<now, dirExists, ledger, validator, kind, input, provider, value,
                 translateCalls, appended>>

\* A caller other than translateRequest calls saveLedgerEntry(env).
SaveCall(c, env) ==
  /\ MayStart(c)
  /\ kind' = [kind EXCEPT ![c] = "saveLedgerEntry"]
  /\ EnterSave(c, env)
  /\ UNCHANGED <<now, dirExists, ledger, validator, input, provider, idTime, value,
                 translateCalls, appended>>

\* schema.json is read and compiled: the validator is cached and applied.
SchemaLoaded(c) ==
  /\ pc[c] = "schema"
  /\ validator' = TRUE
  /\ Validated(c, envelope[c])
  /\ UNCHANGED <<now, dirExists, ledger, kind, input, provider, idTime, value,
                 translateCalls, appended>>

WriteFailure(cause) == <<"Failed to write to ledger: ">> \o cause

\* Deno.mkdir(dir, {recursive: true}) resolves; Deno.writeTextFile is awaited.
MkdirDone(c) ==
  /\ pc[c] = "mkdir"
  /\ dirExists' = TRUE
  /\ pc' = [pc EXCEPT ![c] = "write"]
  /\ UNCHANGED <<now, ledger, validator, kind, input, provider, idTime, envelope,
                 value, error, translateCalls, appended>>

\* A saveLedgerEntry that ignores the error of Deno.mkdir and goes on to write.
MkdirFailIgnored(c) ==
  /\ pc[c] = "mkdir"
  /\ ~dirExists
  /\ pc' = [pc EXCEPT ![c] = "write"]
  /\ UNCHANGED <<now, dirExists, ledger, validator, kind, input, provider, idTime,
                 envelope, value, error, translateCalls, appended>>

\* Deno.mkdir rejects: the catch block wraps the error.
MkdirFail(c) ==
  /\ pc[c] = "mkdir"
  /\ ~dirExists
  /\ pc' = [pc EXCEPT ![c] = "failed"]
  /\ error' = [error EXCEPT ![c] = WriteFailure(<<"Permission denied (os error 13)">>)]
  /\ UNCHANGED <<now, dirExists, ledger, validator, kind, input, provider, idTime,
                 envelope, value, translateCalls, appended>>

\* A line stringified with indentation, JSON.stringify(envelope, null, 2):
\* line feeds follow the opening brace and precede the closing one.
LedgerLinePretty(env) ==
  LET text == JSONStringify(env) IN
  <<Head(text), LF>> \o SubSeq(text, 2, Len(text) - 1) \o <<LF, text[Len(text)], LF>>

\* const line = JSON.stringify(envelope) + "\n"
LedgerLine(env) == Append(JSONStringify(env), LF)

\* Deno.writeTextFile(path, line, {create: true}): the file is written anew.
AppendToFileTruncating(file, line) == File(line)

\* Deno.writeTextFile(path, line, {append: true, create: true}) on the file.
AppendToFile(file, line) == File(file.content \o line)

\* The lines of a file that end in a line feed.
CompleteLines(content) ==
  LET pieces == Split(content) IN SubSeq(pieces, 1, Len(pieces) - 1)

\* What follows the last line feed of a file.
Remainder(content) ==
  LET pieces == Split(content) IN pieces[Len(pieces)]

HasLine(file, line) ==
  \E i \in DOMAIN CompleteLines(file.content) : CompleteLines(file.content)[i] = line

\* A writer that skips an envelope whose line the ledger already holds.
WriteDoneDeduplicating(c) ==
  /\ pc[c] = "write"
  /\ ledger' = IF HasLine(ledger, JSONStringify(envelope[c]))
               THEN ledger
               ELSE AppendToFile(ledger, LedgerLine(envelope[c]))
  /\ appended' = Append(appended, envelope[c])
  /\ value' = [value EXCEPT ![c] =
                 IF kind[c] = "translateRequest" THEN envelope[c] ELSE JUndef]
  /\ pc' = [pc EXCEPT ![c] = "returned"]
  /\ UNCHANGED <<now, dirExists, validator, kind, input, provider, idTime, envelope,
                 error, translateCalls>>

\* The write resolves: saveLedgerEntry returns, and translateRequest returns
\* the envelope.
WriteDone(c) ==
  /\ pc[c] = "write"
  /\ ledger' = AppendToFile(ledger, LedgerLine(envelope[c]))
  /\ appended' = Append(appended, envelope[c])
  /\ value' = [value EXCEPT ![c] =
                 IF kind[c] = "translateRequest" THEN envelope[c] ELSE JUndef]
  /\ pc' = [pc EXCEPT ![c] = "returned"]
  /\ UNCHANGED <<now, dirExists, validator, kind, input, provider, idTime, envelope,
                 error, translateCalls>>

\* A catch block that logs the error of the write and goes on.
WriteFailSwallowed(c) ==
  /\ pc[c] = "write"
  /\ value' = [value EXCEPT ![c] =
                 IF kind[c] = "translateRequest" THEN envelope[c] ELSE JUndef]
  /\ pc' = [pc EXCEPT ![c] = "returned"]
  /\ UNCHANGED <<now, dirExists, ledger, validator, kind, input, provider, idTime,
                 envelope, error, translateCalls, appended>>

\* A catch block that tries the directory and the write again.
WriteFailRetrying(c) ==
  /\ pc[c] = "write"
  /\ pc' = [pc EXCEPT ![c] = "mkdir"]
  /\ UNCHANGED <<now, dirExists, ledger, validator, kind, input, provider, idTime,
                 envelope, value, error, translateCalls, appended>>

\* The write rejects (the append is one write of the whole line: nothing of it
\* reaches the file): the catch block wraps the error.
WriteFail(c) ==
  /\ pc[c] = "write"
  /\ pc' = [pc EXCEPT ![c] = "failed"]
  /\ error' = [error EXCEPT ![c] = WriteFailure(<<"No space left on device (os error 28)">>)]
  /\ UNCHANGED <<now, dirExists, ledger, validator, kind, input, provider, idTime,
                 envelope, value, translateCalls, appended>>

\* ------------------------------------------------------------------------
\* ledger.ts: readLedger
\* ------------------------------------------------------------------------

NonEmpty(line) == Len(line) > 0

\* Lines that are split and not filtered.
LinesOfUnfiltered(content) == Split(Trim(content))

\* content.trim().split("\n").filter(line => line.length > 0)
LinesOf(content) == SelectSeq(Split(Trim(content)), NonEmpty)

Returned(items) == [outcome |-> "returned", value |-> items, error |-> ""]
Threw(name) == [outcome |-> "threw", value |-> <<>>, error |-> name]

\* A reader that keeps the lines that parse and drops the others.
ParseLinesBestEffort(lines) ==
  LET Parses(line) == JSONParse(line).ok
      kept == SelectSeq(lines, Parses) IN
  Returned([i \in DOMAIN kept |-> JSONParse(kept[i]).val])

\* lines.map(line => JSON.parse(line)): the first line that does not parse
\* throws, and the array built so far is lost.
ParseLines(lines) ==
  LET parsed == [i \in DOMAIN lines |-> JSONParse(lines[i])] IN
  IF \E i \in DOMAIN lines : ~parsed[i].ok
  THEN Threw("SyntaxError")
  ELSE Returned([i \in DOMAIN lines |-> parsed[i].val])

\* Deno.readTextFile(path); fault is an error of the operating system other
\* than a missing file ("" for none).
ReadTextFile(file, fault) ==
  IF fault # "" THEN [ok |-> FALSE, content |-> <<>>, error |-> fault]
  ELSE IF ~file.exists THEN [ok |-> FALSE, content |-> <<>>, error |-> "NotFound"]
  ELSE [ok |-> TRUE, content |-> file.content, error |-> ""]

\* A readLedger whose catch block returns [] whatever the error.
readLedgerCatchAll(file, fault) ==
  LET read == ReadTextFile(file, fault) IN
  IF read.ok THEN ParseLines(LinesOf(read.content))
  ELSE Returned(<<>>)

\* readLedger(ledgerPath) on the file found there.
readLedger(file, fault) ==
  LET read == ReadTextFile(file, fault) IN
  IF read.ok THEN ParseLines(LinesOf(read.content))
  ELSE IF read.error = "NotFound" THEN Returned(<<>>)
  ELSE Threw(read.error)

\* Errors of Deno.readTextFile other than a missing file ("" for none).
ReadFaults == {"", "PermissionDenied"}

\* readLedger() is called: Deno.readTextFile is awaited.
ReadCall(c) ==
  /\ MayStart(c)
  /\ kind' = [kind EXCEPT ![c] = "readLedger"]
  /\ pc' = [pc EXCEPT ![c] = "read"]
  /\ UNCHANGED <<now, dirExists, ledger, validator, input, provider, idTime,
                 envelope, value, error, translateCalls, appended>>

\* The read resolves or rejects, and readLedger returns the array or throws.
ReadDone(c, fault) ==
  /\ pc[c] = "read"
  /\ LET r == readLedger(ledger, fault) IN
       IF r.outcome = "returned"
       THEN /\ pc' = [pc EXCEPT ![c] = "returned"]
            /\ value' = [value EXCEPT ![c] = JArr(r.value)]
            /\ error' = error
       ELSE /\ pc' = [pc EXCEPT ![c] = "failed"]
            /\ value' = value
            /\ error' = [error EXCEPT ![c] = <<r.error>>]
  /\ UNCHANGED <<now, dirExists, ledger, validator, kind, input, provider, idTime,
                 envelope, translateCalls, appended>>

\* ------------------------------------------------------------------------
\* contract.ts: the legacy saveLedgerEntry(contract, ledgerPath), called with
\* its default path, which is LEDGER_PATH
\* ------------------------------------------------------------------------

\* saveLedgerEntry(contract) is called: nothing is validated, Deno.mkdir is
\* awaited.
LegacySaveCall(c, contract) ==
  /\ MayStart(c)
  /\ kind' = [kind EXCEPT ![c] = "legacySaveLedgerEntry"]
  /\ envelope' = [envelope EXCEPT ![c] = contract]
  /\ pc' = [pc EXCEPT ![c] = "legacyMkdir"]
  /\ UNCHANGED <<now, dirExists, ledger, validator, input, provider, idTime, value,
                 error, translateCalls, appended>>

LegacyMkdirDone(c) ==
  /\ pc[c] = "legacyMkdir"
  /\ dirExists' = TRUE
  /\ pc' = [pc EXCEPT ![c] = "legacyWrite"]
  /\ UNCHANGED <<now, ledger, validator, kind, input, provider, idTime, envelope,
                 value, error, translateCalls, appended>>

LegacyMkdirFail(c) ==
  /\ pc[c] = "legacyMkdir"
  /\ ~dirExists
  /\ pc' = [pc EXCEPT ![c] = "failed"]
  /\ error' = [error EXCEPT ![c] = <<"Permission denied (os error 13)">>]
  /\ UNCHANGED <<now, dirExists, ledger, validator, kind, input, provider, idTime,
                 envelope, value, translateCalls, appended>>

\* const line = JSON.stringify(contract) + "\n", appended to the file.
LegacyWriteDone(c) ==
  /\ pc[c] = "legacyWrite"
  /\ ledger' = AppendToFile(ledger, Append(JSONStringify(envelope[c]), LF))
  /\ pc' = [pc EXCEPT ![c] = "returned"]
  /\ UNCHANGED <<now, dirExists, validator, kind, input, provider, idTime, envelope,
                 value, error, translateCalls, appended>>

LegacyWriteFail(c) ==
  /\ pc[c] = "legacyWrite"
  /\ pc' = [pc EXCEPT ![c] = "failed"]
  /\ error' = [error EXCEPT ![c] = <<"No space left on device (os error 28)">>]
  /\ UNCHANGED <<now, dirExists, ledger, validator, kind, input, provider, idTime,
                 envelope, value, translateCalls, appended>>

\* ------------------------------------------------------------------------
\* buildContract of translate.ts and buildContract of contract.ts, each
\* called on its own
\* ------------------------------------------------------------------------

\* contract.ts: the string buildContract hands to generateContractId.
LegacyContentForId(params) ==
  params.source_text \o <<"_">> \o params.target_language
    \o <<"_">> \o params.workflow \o <<"_">> \o params.flow

\* contract.ts: the object buildContract assembles (no signature is passed;
\* translator is added last, and only when it is truthy).
legacyBuildContract(params, translated_text, confidence, t, tsTime) ==
  JObj(<< <<Key("id"), JStr(generateContractId(LegacyContentForId(params), t))>>,
          <<Key("workflow"), JStr(params.workflow)>>,
          <<Key("flow"), JStr(params.flow)>>,
          <<Key("source_language"), JStr(params.source_language)>>,
          <<Key("target_language"), JStr(params.target_language)>>,
          <<Key("source_text"), JStr(params.source_text)>>,
          <<Key("translated_text"), JStr(translated_text)>>,
          <<Key("method"), JStr(params.method)>>,
          <<Key("confidence"), JNum(confidence)>>,
          <<Key("provenance"),
            JObj(<< <<Key("timestamp"), JStr(generateTimestamp(tsTime))>>,
                    <<Key("tenant_id"), JStr(params.tenant_id)>>,
                    <<Key("signature"), JStr(<<>>)>> >>)>> >>
       \o (IF Falsy(params.translator) THEN <<>>
           ELSE << <<Key("translator"), params.translator>> >>))

\* contract.ts: validateContract(contract): Valid, or the Error it throws.
validateContract(contract) ==
  LET errors == IF IsObj(contract) THEN ContractErrors(contract)
                ELSE <<SchemaError("", "must be obj")>> IN
  IF errors # <<>>
  THEN Invalid(<<"Invalid translation contract: ">> \o JoinErrors(errors, 1))
  ELSE BusinessRules(contract)

\* buildContract is entered: generateContractId reads the clock and awaits
\* the digest.
BuildStart(c) ==
  /\ pc[c] = "build"
  /\ idTime' = [idTime EXCEPT ![c] = now]
  /\ pc' = [pc EXCEPT ![c] = "hash"]
  /\ UNCHANGED <<now, dirExists, ledger, validator, kind, input, provider,
                 envelope, value, error, translateCalls, appended>>

\* translate.ts: the digest resolves and buildContract returns the object.
BuildDone(c) ==
  /\ pc[c] = "hash"
  /\ kind[c] = "buildContract"
  /\ value' = [value EXCEPT ![c] =
                 buildContract(input[c], provider[c].translatedText,
                               provider[c].confidence, idTime[c], now)]
  /\ pc' = [pc EXCEPT ![c] = "returned"]
  /\ UNCHANGED <<now, dirExists, ledger, validator, kind, input, provider, idTime,
                 envelope, error, translateCalls, appended>>

\* contract.ts: the digest resolves, the object is assembled and
\* validateContract(contract) is awaited.
LegacyBuilt(c) ==
  /\ pc[c] = "hash"
  /\ kind[c] = "legacyBuildContract"
  /\ envelope' = [envelope EXCEPT ![c] =
                    legacyBuildContract(input[c], provider[c].translatedText,
                                        provider[c].confidence, idTime[c], now)]
  /\ pc' = [pc EXCEPT ![c] = "validateContract"]
  /\ UNCHANGED <<now, dirExists, ledger, validator, kind, input, provider, idTime,
                 value, error, translateCalls, appended>>

\* contract.ts: validateContract settles; buildContract returns the contract
\* or rejects with the Error of the validation.
LegacyBuildDone(c) ==
  /\ pc[c] = "validateContract"
  /\ LET v == validateContract(envelope[c]) IN
       IF v.ok
       THEN /\ pc' = [pc EXCEPT ![c] = "returned"]
            /\ value' = [value EXCEPT ![c] = envelope[c]]
            /\ error' = error
       ELSE /\ pc' = [pc EXCEPT ![c] = "failed"]
            /\ value' = value
            /\ error' = [error EXCEPT ![c] = v.message]
  /\ UNCHANGED <<now, dirExists, ledger, validator, kind, input, provider, idTime,
                 envelope, translateCalls, appended>>

\* ------------------------------------------------------------------------
\* Arguments of the direct calls
\* ------------------------------------------------------------------------

\* The object o with its member k set to val.
SetMember(o, k, val) ==
  JObj([i \in DOMAIN o.v |-> IF o.v[i][1] = Key(k) THEN <<Key(k), val>> ELSE o.v[i]])

SampleContract(text, method, translator, confidence) ==
  buildContract(Request(text, method, translator, <<"t1">>), <<"b", LF, "b">>,
                confidence, 0, 0)

GoodContract == SampleContract(<<"a", LF, QUOTE, BSLASH, "n">>, <<"machine">>, JUndef, 95)

\* Envelopes that pass validateEnvelope.
ValidEnvelopes ==
  { MakeEnvelope(GoodContract),
    MakeEnvelope(SampleContract(<<>>, <<"human">>, JStr(<<"b">>), 0)) }

\* Envelopes the business rules reject.
RuleBreakingEnvelopes ==
  { MakeEnvelope(SampleContract(<<"a">>, <<"human">>, JUndef, 95)),
    MakeEnvelope(SampleContract(<<"a">>, <<"machine">>, JUndef, 150)),
    MakeEnvelope(SampleContract(<<"a">>, <<"hybrid">>, JStr(<<>>), -10)) }

\* Envelopes the schema rejects.
MalformedEnvelopes ==
  { GoodContract,
    MakeEnvelope(SetMember(GoodContract, "id", JUndef)),
    MakeEnvelope(SetMember(GoodContract, "method", JStr(<<"robot">>))),
    MakeEnvelope(SetMember(SetMember(GoodContract, "confidence", JStr(<<"1.5">>)),
                           "provenance", JUndef)) }

\* The envelopes handed to saveLedgerEntry by callers other than translateRequest.
DirectEnvelopes == ValidEnvelopes \cup RuleBreakingEnvelopes \cup MalformedEnvelopes

\* The contracts handed to the legacy saveLedgerEntry.
LegacyContracts ==
  { GoodContract, SampleContract(<<"a">>, <<"human">>, JUndef, 150) }

\* The lines a file found at the ledger path may hold.
MaxLines == 3

SampleLine(n) == JSONStringify(JObj(<< <<Key("contract"), JNum(n)>> >>))

FoundLines ==
  { SampleLine(0),
    JSONStringify(MakeEnvelope(GoodContract)),
    <<>>,
    <<SPACE>>,
    <<LBRACE, QUOTE>>,
    SampleLine(50) \o <<COMMA>> }

RECURSIVE Join(_, _)
Join(lines, i) ==
  IF i > Len(lines) THEN <<>>
  ELSE IF i = Len(lines) THEN lines[i]
  ELSE lines[i] \o <<LF>> \o Join(lines, i + 1)

FoundContents ==
  LET texts == {Join(lines, 1) : lines \in UNION {[1 .. n -> FoundLines] : n \in 0 .. MaxLines}}
  IN texts \cup {Append(text, LF) : text \in texts}

FoundFiles == {NoFile} \cup {File(content) : content \in FoundContents}

\* ------------------------------------------------------------------------
\* ledger.ts: validateEnvelope applied to one envelope
\* ------------------------------------------------------------------------

\* Contracts of every method, translator and confidence, all of them well formed.
WellFormedContracts ==
  { SampleContract(<<"a">>, m, tr, n) :
      m \in Methods, tr \in {JUndef, JStr(<<>>), JStr(<<"b">>)}, n \in Numbers }

\* Ways to break the form of a contract.
Faults == {"id", "method", "confidence", "tenant_id"}

BreakOne(contract, fault) ==
  CASE fault = "id" -> SetMember(contract, "id", JUndef)
    [] fault = "method" -> SetMember(contract, "method", JStr(<<"robot">>))
    [] fault = "confidence" -> SetMember(contract, "confidence", JStr(<<"1.5">>))
    [] fault = "tenant_id" ->
         SetMember(contract, "provenance",
                   SetMember(Get(contract, Key("provenance")), "tenant_id", JNum(0)))

\* The contract with every fault of the set applied.
RECURSIVE Break(_, _)
Break(contract, faults) ==
  IF faults = {} THEN contract
  ELSE LET f == CHOOSE f \in faults : TRUE IN Break(BreakOne(contract, f), faults \ {f})

\* The envelopes validateEnvelope is applied to.
CandidateEnvelopes ==
  { MakeEnvelope(Break(contract, faults)) :
      contract \in WellFormedContracts, faults \in SUBSET Faults }

\* validateEnvelope(envelope) settles: getValidator has the validator (it is
\* cached from now on), the envelope passes or the Error is thrown.
ValidateDone(c) ==
  /\ pc[c] = "validate"
  /\ validator' = TRUE
  /\ LET v == validateEnvelope(envelope[c]) IN
       IF v.ok
       THEN /\ pc' = [pc EXCEPT ![c] = "returned"]
            /\ error' = error
       ELSE /\ pc' = [pc EXCEPT ![c] = "failed"]
            /\ error' = [error EXCEPT ![c] = v.message]
  /\ UNCHANGED <<now, dirExists, ledger, kind, input, provider, idTime, envelope,
                 value, translateCalls, appended>>

\* A caller wraps the contract buildContract returned and has it validated.
ValidateBuilt(c) ==
  /\ pc[c] = "returned"
  /\ kind[c] = "buildContract"
  /\ kind' = [kind EXCEPT ![c] = "validateEnvelope"]
  /\ envelope' = [envelope EXCEPT ![c] = MakeEnvelope(value[c])]
  /\ pc' = [pc EXCEPT ![c] = "validate"]
  /\ UNCHANGED <<now, dirExists, ledger, validator, input, provider, idTime, value,
                 error, translateCalls, appended>>

\* A request that names no tenant.
NoTenantRequest == Request(<<"a">>, <<"machine">>, JUndef, <<>>)

\* The arguments buildContract is called with.
BuildRequests ==
  {MachineRequest, HumanRequest, NoTranslatorRequest, EmptyTranslatorRequest,
   NoTenantRequest}

BuildOutputs == {Provider(FALSE, <<"b">>, n) : n \in Numbers}

\* ------------------------------------------------------------------------
\* Specifications
\* ------------------------------------------------------------------------

\* The steps of saveLedgerEntry (ledger.ts) after it is entered.
SaveSteps ==
  \E c \in Calls :
    \/ SchemaLoaded(c)
    \/ MkdirDone(c)
    \/ MkdirFail(c)
    \/ WriteDone(c)
    \/ WriteFail(c)

\* translateRequest, the only writer.
NextPipeline ==
  \/ Tick
  \/ \E c \in Calls, i \in Invocations : Invoke(c, i[1], i[2])
  \/ \E c \in Calls : ProviderResolve(c)
  \/ \E c \in Calls : ProviderReject(c)
  \/ \E c \in Calls : HashDone(c)
  \/ SaveSteps

SpecPipeline == Init /\ [][NextPipeline]_vars

\* What call c of translateRequest awaits (the provider, the digest, the read
\* of schema.json, Deno.mkdir, Deno.writeTextFile) settles, one way or the other, and
\* the call moves on (a step ProviderResolve, ProviderReject, HashDone,
\* SchemaLoaded, MkdirDone, MkdirFail, WriteDone or WriteFail of the call).
Settles(c) ==
  LET awaits == {"translate", "hash", "schema", "mkdir", "write"} IN
  /\ kind[c] = "translateRequest"
  /\ pc[c] \in awaits
  /\ \E place \in (awaits \cup {"returned", "failed"}) \ {pc[c]} :
       pc' = [pc EXCEPT ![c] = place]

\* translateRequest when nothing it awaits stays pending for ever.
SpecPipelineFair ==
  Init /\ [][NextPipeline]_vars /\ \A c \in Calls : WF_pc(Settles(c))

\* readLedger of ledger.ts.
ReadSteps ==
  \/ \E c \in Reads : ReadCall(c)
  \/ \E c \in Reads, fault \in ReadFaults : ReadDone(c, fault)

\* The ledger store on its own: saveLedgerEntry and readLedger of ledger.ts.
NextLedger ==
  \/ \E c \in Calls, env \in DirectEnvelopes : SaveCall(c, env)
  \/ SaveSteps
  \/ ReadSteps

SpecLedger == Init /\ [][NextLedger]_vars

\* readLedger on a file as it may be found.
InitRead ==
  /\ Started
  /\ ledger \in FoundFiles
  /\ dirExists \in {d \in BOOLEAN : ledger.exists => d}

SpecRead == InitRead /\ [][ReadSteps]_vars

\* The legacy writer of contract.ts.
NextLegacy ==
  \/ \E c \in Calls, contract \in LegacyContracts : LegacySaveCall(c, contract)
  \/ \E c \in Calls : LegacyMkdirDone(c)
  \/ \E c \in Calls : LegacyMkdirFail(c)
  \/ \E c \in Calls : LegacyWriteDone(c)
  \/ \E c \in Calls : LegacyWriteFail(c)

\* Every operation of the repository on the ledger.
Next == NextPipeline \/ NextLedger \/ NextLegacy

Spec == Init /\ [][Next]_vars

\* Call 1 stands at the given place with the given arguments; no other call
\* is made.
OneCall(place, function, env, request, output) ==
  /\ now = 0
  /\ dirExists = FALSE
  /\ ledger = NoFile
  /\ validator \in BOOLEAN
  /\ pc = [c \in AllCalls |-> IF c = 1 THEN place ELSE "idle"]
  /\ kind = [c \in AllCalls |-> IF c = 1 THEN function ELSE "none"]
  /\ input = [c \in AllCalls |-> IF c = 1 THEN request ELSE NoRequest]
  /\ provider = [c \in AllCalls |-> IF c = 1 THEN output ELSE NoProvider]
  /\ idTime = [c \in AllCalls |-> 0]
  /\ envelope = [c \in AllCalls |-> IF c = 1 THEN env ELSE JUndef]
  /\ value = [c \in AllCalls |-> JUndef]
  /\ error = [c \in AllCalls |-> <<>>]
  /\ translateCalls = [c \in AllCalls |-> 0]
  /\ appended = <<>>

\* validateEnvelope applied to one envelope.
InitValidate ==
  \E env \in CandidateEnvelopes :
    OneCall("validate", "validateEnvelope", env, NoRequest, NoProvider)

NextValidate == \E c \in Calls : ValidateDone(c)

SpecValidate == InitValidate /\ [][NextValidate]_vars

\* buildContract of translate.ts or of contract.ts applied to one request.
InitBuild ==
  \E function \in {"buildContract", "legacyBuildContract"},
     request \in BuildRequests, output \in BuildOutputs :
    OneCall("build", function, JUndef, request, output)

NextBuild ==
  \/ Tick
  \/ \E c \in Calls : BuildStart(c)
  \/ \E c \in Calls : BuildDone(c)
  \/ \E c \in Calls : LegacyBuilt(c)
  \/ \E c \in Calls : LegacyBuildDone(c)
  \/ \E c \in Calls : ValidateBuilt(c)
  \/ \E c \in Calls : ValidateDone(c)

SpecBuild == InitBuild /\ [][NextBuild]_vars

\* Requests whose fields may hold the "_" that joins them in the content of
\* the id.
ComposeRequests ==
  { [MachineRequest EXCEPT !.source_language = sl, !.target_language = tl,
                           !.source_text = text, !.workflow = w] :
      sl \in {<<"a">>, <<"a", "_", "b">>},
      tl \in {<<"a">>, <<"b", "_", "a">>},
      text \in {<<"a">>, <<"a", "_", "b">>},
      w \in {<<"a">>, <<"b", "_", "a">>} }

\* One call of a buildContract with such a request.
SpecCompose ==
  /\ \E function \in {"buildContract", "legacyBuildContract"},
        request \in ComposeRequests, output \in BuildOutputs :
       OneCall("build", function, JUndef, request, output)
  /\ [][NextBuild]_vars

\* What a provider may resolve with, or that it rejects.
RequestProviders ==
  {FailingProvider, GoodProvider, Provider(FALSE, <<>>, 0)}
    \cup {Provider(FALSE, <<"b">>, n) : n \in Numbers}

HybridRequest == Request(<<"a", QUOTE>>, <<"hybrid">>, JStr(<<"b", SPACE, "b">>), <<"t1">>)

RequestInputs == BuildRequests \cup {HybridRequest}

\* One call of translateRequest, with every provider and every request.
NextRequest ==
  \/ Tick
  \/ \E p \in RequestProviders, r \in RequestInputs : Invoke(1, p, r)
  \/ \E c \in Calls : ProviderResolve(c)
  \/ \E c \in Calls : ProviderReject(c)
  \/ \E c \in Calls : HashDone(c)
  \/ SaveSteps

SpecRequest == Init /\ [][NextRequest]_vars

\* Calls with requests that differ from one another, in the tenant, the
\* method or the text.
PairInvocations ==
  { <<GoodProvider, HumanRequest>>,
    <<GoodProvider, Request(<<"a">>, <<"hybrid">>, JStr(<<"b">>), <<"b">>)>>,
    <<GoodProvider, Request(<<"b">>, <<"machine">>, JUndef, <<"t1">>)>>,
    <<FailingProvider, HumanRequest>> }

\* Calls of translateRequest with requests that differ.
NextPair ==
  \/ Tick
  \/ \E c \in Calls, i \in PairInvocations : Invoke(c, i[1], i[2])
  \/ \E c \in Calls : ProviderResolve(c)
  \/ \E c \in Calls : ProviderReject(c)
  \/ \E c \in Calls : HashDone(c)
  \/ SaveSteps

SpecPair == Init /\ [][NextPair]_vars

\* ------------------------------------------------------------------------
\* api.ts (legacy handleTranslate) and the CLI (commandTranslate): build,
\* sign if enabled, save
\* ------------------------------------------------------------------------

\* What signContract returns: "ed25519:" and the signature in hex.
Signature == <<"ed25519:", "a", "b">>

\* object[key] = item, for a key the object has.
Assign(object, key, item) ==
  JObj([i \in DOMAIN object.v |->
          IF object.v[i][1] = key THEN <<key, item>> ELSE object.v[i]])

\* contract.provenance.signature = signature
Sign(contract, signature) ==
  Assign(contract, Key("provenance"),
         Assign(Get(contract, Key("provenance")), Key("signature"), JStr(signature)))

\* The requests that pass validateTranslateRequest.
HandlerRequests == {MachineRequest, HumanRequest}

\* The handler is called with a valid request and translateText resolves
\* with output: buildContract of contract.ts is entered.
LegacyHandle(c, request, output) ==
  /\ MayStart(c)
  /\ pc' = [pc EXCEPT ![c] = "build"]
  /\ kind' = [kind EXCEPT ![c] = "legacyBuildContract"]
  /\ input' = [input EXCEPT ![c] = request]
  /\ provider' = [provider EXCEPT ![c] = output]
  /\ UNCHANGED <<now, dirExists, ledger, validator, idTime, envelope, value, error,
                 translateCalls, appended>>

\* A handler that stamps the provenance anew when it signs.
LegacySignAndSaveRestamped(c, signing) ==
  /\ pc[c] = "returned"
  /\ kind[c] = "legacyBuildContract"
  /\ kind' = [kind EXCEPT ![c] = "legacyTranslate"]
  /\ envelope' = [envelope EXCEPT ![c] =
                    IF signing
                    THEN Assign(value[c], Key("provenance"),
                                JObj(<< <<Key("timestamp"), JStr(generateTimestamp(now))>>,
                                        <<Key("tenant_id"), JStr(<<"default">>)>>,
                                        <<Key("signature"), JStr(Signature)>> >>))
                    ELSE value[c]]
  /\ pc' = [pc EXCEPT ![c] = "legacyMkdir"]
  /\ UNCHANGED <<now, dirExists, ledger, validator, input, provider, idTime, value,
                 error, translateCalls, appended>>

\* buildContract returned the contract (value[c], as it was validated): with
\* signing enabled and a private key in the environment the handler assigns
\* contract.provenance.signature; then it calls saveLedgerEntry(contract) of
\* contract.ts (envelope[c] is the object handed over).
LegacySignAndSave(c, signing) ==
  /\ pc[c] = "returned"
  /\ kind[c] = "legacyBuildContract"
  /\ kind' = [kind EXCEPT ![c] = "legacyTranslate"]
  /\ envelope' = [envelope EXCEPT ![c] =
                    IF signing THEN Sign(value[c], Signature) ELSE value[c]]
  /\ pc' = [pc EXCEPT ![c] = "legacyMkdir"]
  /\ UNCHANGED <<now, dirExists, ledger, validator, input, provider, idTime, value,
                 error, translateCalls, appended>>

\* One request, served by the legacy handler or by translateRequest.
NextHandler ==
  \/ Tick
  \/ \E r \in HandlerRequests, output \in BuildOutputs : LegacyHandle(1, r, output)
  \/ \E c \in Calls : BuildStart(c)
  \/ \E c \in Calls : LegacyBuilt(c)
  \/ \E c \in Calls : LegacyBuildDone(c)
  \/ \E c \in Calls, signing \in BOOLEAN : LegacySignAndSave(c, signing)
  \/ \E c \in Calls : LegacyMkdirDone(c)
  \/ \E c \in Calls : LegacyMkdirFail(c)
  \/ \E c \in Calls : LegacyWriteDone(c)
  \/ \E c \in Calls : LegacyWriteFail(c)
  \/ \E p \in {GoodProvider, FailingProvider}, r \in HandlerRequests : Invoke(1, p, r)
  \/ \E c \in Calls : ProviderResolve(c)
  \/ \E c \in Calls : ProviderReject(c)
  \/ \E c \in Calls : HashDone(c)
  \/ SaveSteps

SpecHandler == Init /\ [][NextHandler]_vars

\* ------------------------------------------------------------------------
\* api.ts: POST /translate, served by translateRequest
\* ------------------------------------------------------------------------

RequestTranslatorMessage ==
  <<"translator is required when method is 'human' or 'hybrid'">>

\* A validateTranslateRequest that leaves the translator to the pipeline.
validateTranslateRequestTrusting(body) ==
  IF body.source_language = <<>>
  THEN Invalid(<<"source_language is required and must be a string">>)
  ELSE IF body.target_language = <<>>
  THEN Invalid(<<"target_language is required and must be a string">>)
  ELSE IF body.source_text = <<>>
  THEN Invalid(<<"source_text is required and must be a string">>)
  ELSE IF body.workflow = <<>>
  THEN Invalid(<<"workflow is required and must be a string">>)
  ELSE IF body.flow = <<>>
  THEN Invalid(<<"flow is required and must be a string">>)
  ELSE IF body.tenant_id = <<>>
  THEN Invalid(<<"tenant_id is required and must be a string">>)
  ELSE IF body.method # <<>> /\ body.method \notin Methods
  THEN Invalid(<<"method must be 'human', 'machine', or 'hybrid'">>)
  ELSE Valid

\* validateTranslateRequest(body): Valid, or the Error it throws.  A field
\* that is absent or empty is the empty text.
validateTranslateRequest(body) ==
  IF body.source_language = <<>>
  THEN Invalid(<<"source_language is required and must be a string">>)
  ELSE IF body.target_language = <<>>
  THEN Invalid(<<"target_language is required and must be a string">>)
  ELSE IF body.source_text = <<>>
  THEN Invalid(<<"source_text is required and must be a string">>)
  ELSE IF body.workflow = <<>>
  THEN Invalid(<<"workflow is required and must be a string">>)
  ELSE IF body.flow = <<>>
  THEN Invalid(<<"flow is required and must be a string">>)
  ELSE IF body.tenant_id = <<>>
  THEN Invalid(<<"tenant_id is required and must be a string">>)
  ELSE IF body.method # <<>> /\ body.method \notin Methods
  THEN Invalid(<<"method must be 'human', 'machine', or 'hybrid'">>)
  ELSE IF body.method \in {<<"human">>, <<"hybrid">>} /\ Falsy(body.translator)
  THEN Invalid(RequestTranslatorMessage)
  ELSE Valid

\* The bodies posted to /translate.
PostedBodies ==
  { MachineRequest, HumanRequest, NoTranslatorRequest, EmptyTranslatorRequest,
    NoTenantRequest,
    Request(<<"a">>, <<"hybrid">>, JUndef, <<"t1">>),
    Request(<<"a">>, <<>>, JUndef, <<"t1">>),
    Request(<<"a">>, <<"robot">>, JStr(<<"b">>), <<"t1">>) }

\* handleTranslate(request): the body is validated; a body that is rejected
\* is answered from the catch block, any other is given the method machine
\* if it names none and handed to translateRequest, whose provider.translate
\* is invoked at once.
HandleTranslate(c, p, body) ==
  /\ MayStart(c)
  /\ LET v == validateTranslateRequest(body) IN
       IF v.ok
       THEN /\ pc' = [pc EXCEPT ![c] = "translate"]
            /\ kind' = [kind EXCEPT ![c] = "translateRequest"]
            /\ input' = [input EXCEPT ![c] =
                           IF body.method = <<>>
                           THEN [body EXCEPT !.method = <<"machine">>]
                           ELSE body]
            /\ provider' = [provider EXCEPT ![c] = p]
            /\ translateCalls' = [translateCalls EXCEPT ![c] = @ + 1]
            /\ error' = error
       ELSE /\ pc' = [pc EXCEPT ![c] = "failed"]
            /\ kind' = [kind EXCEPT ![c] = "handleTranslate"]
            /\ input' = [input EXCEPT ![c] = body]
            /\ provider' = [provider EXCEPT ![c] = p]
            /\ translateCalls' = translateCalls
            /\ error' = [error EXCEPT ![c] = v.message]
  /\ UNCHANGED <<now, dirExists, ledger, validator, idTime, envelope, value,
                 appended>>

\* The status of the Response handleTranslate gives once the call has
\* settled: 200 with the envelope, 400 from the catch block (0: no response).
ResponseStatus(c) ==
  IF pc[c] = "returned" THEN 200
  ELSE IF pc[c] = "failed" THEN 400
  ELSE 0

\* One request posted to /translate.
NextApi ==
  \/ Tick
  \/ \E p \in RequestProviders, body \in PostedBodies : HandleTranslate(1, p, body)
  \/ \E c \in Calls : ProviderResolve(c)
  \/ \E c \in Calls : ProviderReject(c)
  \/ \E c \in Calls : HashDone(c)
  \/ SaveSteps

SpecApi == Init /\ [][NextApi]_vars
\* ------------------------------------------------------------------------
\* Properties
\* ------------------------------------------------------------------------

ReturnedCalls == {c \in Calls : pc[c] = "returned"}

\* C1: after any sequence of translateRequest calls the ledger holds as many
\* lines as calls have returned an envelope, and nothing else: a call that
\* returns has appended one line, a call that fails or is under way none, and
\* calls with the same content each append their line.
LinesMatchReturnedCalls ==
  /\ Len(CompleteLines(ledger.content)) = Cardinality(ReturnedCalls)
  /\ Remainder(ledger.content) = <<>>

\* Two calls with the same request, the same id and the same timestamp have
\* returned, and the ledger holds both lines.
TwoEqualEnvelopesAppended ==
  /\ pc[1] = "returned" /\ pc[2] = "returned"
  /\ value[1] = value[2]
  /\ Len(CompleteLines(ledger.content)) = 2

\* C2: translateRequest hands an envelope to its caller only once the line of
\* that envelope is in the ledger; a call that has not returned has handed
\* nothing back.
ReturnedOnlyAfterSaved ==
  \A c \in Calls :
    IF pc[c] = "returned"
    THEN HasLine(ledger, JSONStringify(value[c]))
    ELSE value[c] = JUndef

\* One call has returned its envelope while another failed in the write.
ReturnedBesideFailedWrite ==
  \E c, d \in Calls :
    /\ pc[c] = "returned" /\ IsObj(value[c])
    /\ pc[d] = "failed"
    /\ error[d] = WriteFailure(<<"No space left on device (os error 28)">>)

\* A step of call c.
Moves(c) == pc'[c] # pc[c]

StorageUntouched == dirExists' = dirExists /\ ledger' = ledger

\* C3: saveLedgerEntry called with an envelope that validateEnvelope rejects
\* fails without touching storage: no step of the call creates the directory
\* or the file or changes the file, and the call goes nowhere but to its
\* failure (by way of the load of the schema on a first call).
InvalidEnvelopeTouchesNothing ==
  [][\A c \in Calls :
       (kind'[c] = "saveLedgerEntry" /\ Moves(c) /\ ~validateEnvelope(envelope'[c]).ok)
         => (pc'[c] \in {"schema", "failed"} /\ StorageUntouched)]_vars

\* A call with a rejected envelope has failed beside a call whose line is in
\* the file.
InvalidEnvelopeRejectedBesideLine ==
  \E c, d \in Calls :
    /\ kind[c] = "saveLedgerEntry" /\ pc[c] = "failed"
    /\ ~validateEnvelope(envelope[c]).ok
    /\ pc[d] = "returned"
    /\ ledger = File(LedgerLine(envelope[d]))

\* The request names a human in its method and no translator.
NoTranslator(r) ==
  /\ r.method \in {<<"human">>, <<"hybrid">>}
  /\ r.translator \in {JUndef, JStr(<<>>)}

ProviderFailurePropagates ==
  [][\A c \in Calls :
       (provider'[c].shouldFail /\ pc'[c] # "idle")
         => /\ pc'[c] \in {"translate", "failed"}
            /\ pc'[c] = "failed" => error'[c] = MockError
            /\ translateCalls'[c] = 1
            /\ envelope'[c] = JUndef
            /\ Moves(c) => StorageUntouched]_vars

\* A call has failed with the provider's error beside a call that has written
\* its line.
ProviderFailedBesideLine ==
  \E c, d \in Calls :
    /\ provider[c].shouldFail /\ pc[c] = "failed" /\ error[c] = MockError
    /\ pc[d] = "returned"
    /\ ledger = File(LedgerLine(value[d]))

IsPrefix(s, t) == Len(s) <= Len(t) /\ SubSeq(t, 1, Len(s)) = s

\* C6: the ledger is append-only: in every step of every operation the
\* content of the file before is a prefix of the content after, and the file
\* once there stays.
AppendOnly ==
  [][/\ IsPrefix(ledger.content, ledger'.content)
     /\ ledger.exists => ledger'.exists]_vars

\* The legacy writer and translateRequest have both appended, and readLedger
\* has run.
TwoWritersAppended ==
  /\ \E c, d \in Calls :
       /\ kind[c] = "legacySaveLedgerEntry" /\ pc[c] = "returned"
       /\ kind[d] = "translateRequest" /\ pc[d] = "returned"
  /\ \E r \in Reads : pc[r] \in {"returned", "failed"}
  /\ Len(CompleteLines(ledger.content)) = 2

\* The line parses to an object { contract: {...} } that validateEnvelope
\* accepts.
IsEnvelopeLine(line) ==
  LET parsed == JSONParse(line) IN
  /\ parsed.ok
  /\ IsObj(Get(parsed.val, Key("contract")))
  /\ validateEnvelope(parsed.val).ok

\* C7: every line of the ledger file parses on its own to a schema-valid
\* Envelope that satisfies the business rules, whichever writer of the
\* repository wrote it.
EveryLineIsValidEnvelope ==
  /\ \A i \in DOMAIN CompleteLines(ledger.content) :
       IsEnvelopeLine(CompleteLines(ledger.content)[i])
  /\ Remainder(ledger.content) = <<>>

Keys(o) == {o.v[i][1] : i \in DOMAIN o.v}

\* The two values have the same fields with the same values (a member that is
\* undefined counts as absent).
RECURSIVE SameValue(_, _)
SameValue(a, b) ==
  IF IsObj(a) /\ IsObj(b)
  THEN \A k \in Keys(a) \cup Keys(b) : SameValue(Get(a, k), Get(b, k))
  ELSE a = b

\* C8: after N appends of valid envelopes to a ledger that was absent, a
\* readLedger that can read the file returns N envelopes, in the order of the
\* appends, the i-th with every field equal to that of the i-th envelope
\* appended.
ReadReturnsAppended ==
  [][\A r \in Reads :
       (pc[r] = "read" /\ Moves(r) /\ error'[r] # <<"PermissionDenied">>)
         => /\ pc'[r] = "returned"
            /\ Len(value'[r].v) = Len(appended)
            /\ \A i \in DOMAIN appended : SameValue(value'[r].v[i], appended[i])]_vars

\* readLedger has returned two different envelopes, the second with the line
\* feed, the quote and the backslash in its source_text.
ReadTwoEnvelopesBack ==
  \E r \in Reads :
    /\ pc[r] = "returned"
    /\ Len(value[r].v) = 2
    /\ value[r].v[1] # value[r].v[2]
    /\ Get(Get(value[r].v[2], Key("contract")), Key("source_text"))
         = JStr(<<"a", LF, QUOTE, BSLASH, "n">>)
    /\ Get(Get(value[r].v[1], Key("contract")), Key("translator")) = JStr(<<"b">>)

\* C9: readLedger on a path where no file is returns the empty array and
\* creates nothing; a read that fails for another reason makes readLedger fail
\* with that error, whatever the file.
MissingFileReadsEmpty ==
  [][\A r \in Reads :
       /\ (ReadDone(r, "") /\ ~ledger.exists)
            => /\ pc'[r] = "returned" /\ value'[r] = JArr(<<>>)
               /\ ledger' = NoFile /\ dirExists' = dirExists
       /\ ReadDone(r, "PermissionDenied")
            => /\ pc'[r] = "failed" /\ error'[r] = <<"PermissionDenied">>
               /\ value'[r] = JUndef]_vars

\* readLedger has returned the empty array where neither the file nor its
\* directory is, and they are still not there.
MissingFileWasRead ==
  \E r \in Reads :
    /\ pc[r] = "returned" /\ value[r] = JArr(<<>>)
    /\ ledger = NoFile /\ ~dirExists

\* The line holds more than white space.
NonBlank(line) == \E i \in DOMAIN line : line[i] \notin Whitespace

\* Some line that holds more than white space is no JSON text.
HasBadLine(content) ==
  \E i \in DOMAIN Split(content) :
    NonBlank(Split(content)[i]) /\ ~JSONParse(Split(content)[i]).ok

\* C10: when a line of the file that holds more than white space does not
\* parse as JSON, readLedger fails and returns nothing: not the lines that
\* parse, not the lines before the bad one.
BadLineFailsWholeRead ==
  [][\A r \in Reads :
       (pc[r] = "read" /\ Moves(r) /\ ledger.exists /\ HasBadLine(ledger.content))
         => /\ pc'[r] = "failed"
            /\ error'[r] \in {<<"SyntaxError">>, <<"PermissionDenied">>}
            /\ value'[r] = JUndef]_vars

\* readLedger has failed on a file whose first line parses and whose second
\* does not.
BadLineAfterGoodLineRead ==
  \E r \in Reads :
    /\ pc[r] = "failed" /\ error[r] = <<"SyntaxError">>
    /\ Len(Split(ledger.content)) >= 2
    /\ JSONParse(Split(ledger.content)[1]).ok
    /\ NonBlank(Split(ledger.content)[2])
    /\ ~JSONParse(Split(ledger.content)[2]).ok

\* ------------------------------------------------------------------------
\* Properties of validateEnvelope
\* ------------------------------------------------------------------------

\* The calls of validateEnvelope that have settled.
Settled(c) == kind[c] = "validateEnvelope" /\ pc[c] \in {"returned", "failed"}

ContractOf(c) == Get(envelope[c], Key("contract"))

ConfidenceOf(c) == Get(ContractOf(c), Key("confidence")).v

\* The contract is of method machine, or it names a translator.
TranslatorGiven(contract) ==
  \/ Get(contract, Key("method")) = JStr(<<"machine">>)
  \/ /\ IsStr(Get(contract, Key("translator")))
     /\ Get(contract, Key("translator")).v # <<>>

\* The text holds the piece, character for character.
Contains(text, piece) ==
  \E i \in 1 .. Len(text) - Len(piece) + 1 :
    SubSeq(text, i, i + Len(piece) - 1) = piece

\* C11 (as stated): a well-formed envelope whose confidence lies outside
\* [0, 1] is rejected with a message that cites the offending value.
ConfidenceRejectionCitesValue ==
  \A c \in Calls :
    ( /\ Settled(c)
      /\ ContractOf(c) \in WellFormedContracts
      /\ TranslatorGiven(ContractOf(c))
      /\ (ConfidenceOf(c) < 0 \/ ConfidenceOf(c) > 100) )
    => /\ pc[c] = "failed"
       /\ Contains(error[c], <<NumToText(ConfidenceOf(c))>>)

\* C11 (amended): a well-formed envelope that satisfies the translator rule is
\* accepted exactly when 0 <= confidence <= 1, both ends included; a rejection
\* carries the fixed message "confidence must be between 0.0 and 1.0", which
\* does not cite the value.
ConfidenceAcceptedExactlyInRange ==
  \A c \in Calls :
    (Settled(c) /\ ContractOf(c) \in WellFormedContracts /\ TranslatorGiven(ContractOf(c)))
    => /\ pc[c] = "returned" <=> (0 <= ConfidenceOf(c) /\ ConfidenceOf(c) <= 100)
       /\ pc[c] = "failed" => error[c] = ConfidenceRangeMessage

ConfidenceAboveOneRejected ==
  \E c \in Calls :
    /\ Settled(c)
    /\ ContractOf(c) \in WellFormedContracts
    /\ Get(ContractOf(c), Key("method")) = JStr(<<"hybrid">>)
    /\ TranslatorGiven(ContractOf(c))
    /\ ConfidenceOf(c) = 150
    /\ error[c] = ConfidenceRangeMessage

NeedsTranslator(contract) ==
  Get(contract, Key("method")) \in {JStr(<<"human">>), JStr(<<"hybrid">>)}

\* C12: a well-formed envelope of method human or hybrid whose translator is
\* absent or empty is rejected with the failure that names translator; with a
\* non-empty translator it is never rejected for its translator (and is
\* accepted when its confidence is in range); method machine never asks for a
\* translator.
TranslatorRuleDecides ==
  \A c \in Calls :
    (Settled(c) /\ ContractOf(c) \in WellFormedContracts)
    => LET contract == ContractOf(c)
           inRange == 0 <= ConfidenceOf(c) /\ ConfidenceOf(c) <= 100 IN
       /\ (NeedsTranslator(contract) /\ ~TranslatorGiven(contract))
            => (pc[c] = "failed" /\ error[c] = TranslatorRequiredMessage)
       /\ TranslatorGiven(contract)
            => (error[c] # TranslatorRequiredMessage /\ (inRange => pc[c] = "returned"))
       /\ Get(contract, Key("method")) = JStr(<<"machine">>)
            => error[c] # TranslatorRequiredMessage

EmptyTranslatorRejected ==
  \E c \in Calls :
    /\ Settled(c)
    /\ ContractOf(c) \in WellFormedContracts
    /\ Get(ContractOf(c), Key("method")) = JStr(<<"hybrid">>)
    /\ Get(ContractOf(c), Key("translator")) = JStr(<<>>)
    /\ ConfidenceOf(c) = 150
    /\ error[c] = TranslatorRequiredMessage

\* ------------------------------------------------------------------------
\* Properties of buildContract
\* ------------------------------------------------------------------------

\* C13 (as stated): buildContract never fails, whatever its input; a
\* rejection happens only in a later, separate validate call.
BuildContractNeverFails ==
  \A c \in Calls :
    kind[c] \in {"buildContract", "legacyBuildContract"} => pc[c] # "failed"

\* buildContract of translate.ts, for its part, returns a fully populated
\* contract for every input.
PipelineBuildContractNeverFails ==
  \A c \in Calls :
    kind[c] = "buildContract" /\ pc[c] \in {"returned", "failed"}
    => /\ pc[c] = "returned"
       /\ \A k \in {"id", "workflow", "flow", "source_language", "target_language",
                     "source_text", "translated_text", "method", "confidence",
                     "provenance"} : ~IsUndef(Get(value[c], Key(k)))

\* ------------------------------------------------------------------------
\* Properties of one translateRequest
\* ------------------------------------------------------------------------

\* The calls of translateRequest that have settled.
Finished(c) == kind[c] = "translateRequest" /\ pc[c] \in {"returned", "failed"}

ReturnedContract(c) == Get(value[c], Key("contract"))

\* "trans_" followed by IdHexLen hexadecimal characters.
IsContractId(id) ==
  /\ Len(id) = 1 + IdHexLen
  /\ id[1] = "trans_"
  /\ \A i \in 2 .. Len(id) : \E d \in DOMAIN HexDigits : HexDigits[d] = id[i]

\* The text toISOString gives for a reading of the clock.
IsTimestamp(text) == \E t \in 0 .. MaxClock : text = generateTimestamp(t)

ReturnedContractCopiesInputs ==
  \A c \in Calls :
    (Finished(c) /\ pc[c] = "returned")
    => LET contract == ReturnedContract(c) IN
       /\ Get(contract, Key("workflow")) = JStr(input[c].workflow)
       /\ Get(contract, Key("flow")) = JStr(input[c].flow)
       /\ Get(contract, Key("source_language")) = JStr(input[c].source_language)
       /\ Get(contract, Key("target_language")) = JStr(input[c].target_language)
       /\ Get(contract, Key("source_text")) = JStr(input[c].source_text)
       /\ Get(contract, Key("method")) = JStr(input[c].method)
       /\ Get(contract, Key("translator")) = input[c].translator
       /\ Get(contract, Key("translated_text")) = JStr(provider[c].translatedText)
       /\ Get(contract, Key("confidence")) = JNum(provider[c].confidence)

HybridRequestReturned ==
  \E c \in Calls :
    /\ Finished(c)
    /\ pc[c] = "returned"
    /\ input[c] = HybridRequest
    /\ provider[c] = GoodProvider
    /\ Get(ReturnedContract(c), Key("translator")) = JStr(<<"b", SPACE, "b">>)

\* C16: every contract translateRequest appends to the ledger names a tenant:
\* its provenance.tenant_id is not the empty string.
AppendedTenantNeverEmpty ==
  \A i \in DOMAIN appended :
    Get(Get(Get(appended[i], Key("contract")), Key("provenance")), Key("tenant_id"))
      # JStr(<<>>)

\* ------------------------------------------------------------------------
\* Properties of several translateRequest
\* ------------------------------------------------------------------------

\* C17: two translateRequest calls with the same input return contracts with
\* the same id, whatever the time between them.
SameInputSameId ==
  \A c, d \in Calls :
    ( /\ Finished(c) /\ pc[c] = "returned"
      /\ Finished(d) /\ pc[d] = "returned"
      /\ input[c] = input[d] )
    => Get(ReturnedContract(c), Key("id")) = Get(ReturnedContract(d), Key("id"))

\* C18: when Deno.mkdir or Deno.writeTextFile fails inside saveLedgerEntry the
\* call fails with an error handed to its caller (translateRequest fails with
\* it and returns no envelope) and the ledger is left as it was, with no
\* partial line; a call changes the ledger only in the step that makes it
\* return.
StorageFailureSurfaces ==
  [][\A c \in Calls :
       LET mkdirFailed == pc[c] = "mkdir" /\ Moves(c) /\ ~dirExists'
           writeFailed == pc[c] = "write" /\ Moves(c) /\ ledger' = ledger
       IN /\ (mkdirFailed \/ writeFailed)
               => /\ pc'[c] = "failed"
                  /\ error'[c] # <<>>
                  /\ error'[c][1] = "Failed to write to ledger: "
                  /\ value'[c] = JUndef
          /\ (Moves(c) /\ pc'[c] = "failed")
               => (ledger' = ledger /\ Remainder(ledger'.content) = <<>>)
          /\ (Moves(c) /\ ledger' # ledger) => pc'[c] = "returned"]_vars

\* A translateRequest failed in the write and returned nothing, beside the
\* line of another call, which is all the ledger holds.
WriteFailedBesideLine ==
  \E c, d \in Calls :
    /\ kind[d] = "translateRequest"
    /\ pc[d] = "failed"
    /\ error[d] = WriteFailure(<<"No space left on device (os error 28)">>)
    /\ value[d] = JUndef
    /\ pc[c] = "returned"
    /\ ledger.content = LedgerLine(value[c])

\* The envelope is one translateRequest builds from the request and the
\* provider of call c, at some readings of the clock.
BuiltFromOwnData(c, env) ==
  \E t1, t2 \in 0 .. MaxClock :
    /\ t1 <= t2
    /\ env = MakeEnvelope(buildContract(input[c], provider[c].translatedText,
                                        provider[c].confidence, t1, t2))

\* C19: with several translateRequest calls in flight, in every interleaving
\* the ledger holds one complete line per call that returned (the line of its
\* envelope), none for the others and no broken line, and the contract and
\* the validation outcome of a call are those of its own request and provider.
ConcurrentCallsKeepApart ==
  LET lines == CompleteLines(ledger.content) IN
  /\ Remainder(ledger.content) = <<>>
  /\ Len(lines) = Cardinality(ReturnedCalls)
  /\ \A c \in ReturnedCalls :
       Cardinality({i \in DOMAIN lines : lines[i] = JSONStringify(value[c])})
         = Cardinality({d \in ReturnedCalls : value[d] = value[c]})
  /\ \A c \in Calls :
       (kind[c] = "translateRequest" /\ envelope[c] # JUndef)
       => /\ BuiltFromOwnData(c, envelope[c])
          /\ pc[c] \in {"mkdir", "write", "returned"} => validateEnvelope(envelope[c]).ok
          /\ pc[c] = "returned" => value[c] = envelope[c]
          /\ pc[c] = "failed" =>
               IF validateEnvelope(envelope[c]).ok
               THEN error[c][1] = "Failed to write to ledger: "
               ELSE error[c] = validateEnvelope(envelope[c]).message

\* Two calls with different requests ran together and both returned, the
\* line of the call that started second standing first.
LaterCallAppendedFirst ==
  /\ pc[1] = "returned" /\ pc[2] = "returned"
  /\ input[1] # input[2]
  /\ ledger.content = LedgerLine(value[2]) \o LedgerLine(value[1])

\* ------------------------------------------------------------------------
\* Properties of the structural validation
\* ------------------------------------------------------------------------

\* What the validator says of each way to break a contract.
FaultMessage(fault) ==
  CASE fault = "id" -> SchemaError("/contract", "must have required property 'id'")
    [] fault = "method" ->
         SchemaError("/contract/method", "must be equal to one of the allowed values")
    [] fault = "confidence" -> SchemaError("/contract/confidence", "must be num")
    [] fault = "tenant_id" -> SchemaError("/contract/provenance/tenant_id", "must be str")

\* The violations a message enumerates: they are joined with ", ".
ViolationsListed(message) ==
  1 + Cardinality({i \in 1 .. Len(message) - 1 :
                     message[i] = COMMA /\ message[i + 1] = SPACE})

\* C20: an envelope with k >= 1 structural violations fails with one error,
\* the structural one, whose message enumerates all k violations, whether or
\* not the envelope also breaks the translator or the confidence rule.
StructuralViolationsAllReported ==
  \A c \in Calls :
    Settled(c) =>
      \A contract \in WellFormedContracts, faults \in (SUBSET Faults) \ {{}} :
        envelope[c] = MakeEnvelope(Break(contract, faults))
        => /\ pc[c] = "failed"
           /\ error[c][1] = "Invalid translation contract envelope: "
           /\ \A f \in faults : Contains(error[c], FaultMessage(f))
           /\ ViolationsListed(error[c]) = Cardinality(faults)

\* An envelope without id, with a tenant_id that is no string, of method human
\* without translator and with confidence 1.5 was rejected.
TwoViolationsBesideBrokenRules ==
  \E c \in Calls :
    /\ Settled(c)
    /\ envelope[c] = MakeEnvelope(Break(SampleContract(<<"a">>, <<"human">>, JUndef, 150),
                                        {"id", "tenant_id"}))
    /\ pc[c] = "failed"
    /\ ViolationsListed(error[c]) = 2

\* ------------------------------------------------------------------------
\* Properties of the order of the business rules
\* ------------------------------------------------------------------------

\* A well-formed contract that breaks both business rules.
BreaksBothRules(contract) ==
  /\ contract \in WellFormedContracts
  /\ NeedsTranslator(contract)
  /\ ~TranslatorGiven(contract)
  /\ LET confidence == Get(contract, Key("confidence")).v IN
       confidence < 0 \/ confidence > 100

\* C21 (as stated): the confidence range is tested first, so an envelope that
\* breaks both business rules fails with the confidence-range error.
BothRulesBrokenFailsOnConfidence ==
  \A c \in Calls :
    (Settled(c) /\ BreaksBothRules(ContractOf(c)))
    => (pc[c] = "failed" /\ error[c] = ConfidenceRangeMessage)

\* C21 (amended): the translator requirement is tested first and the
\* confidence range second, so an envelope that breaks both business rules
\* fails with the translator-required error.
BothRulesBrokenFailsOnTranslator ==
  \A c \in Calls :
    (Settled(c) /\ BreaksBothRules(ContractOf(c)))
    => (pc[c] = "failed" /\ error[c] = TranslatorRequiredMessage)

HumanBelowZeroRejected ==
  \E c \in Calls :
    /\ Settled(c)
    /\ BreaksBothRules(ContractOf(c))
    /\ Get(ContractOf(c), Key("method")) = JStr(<<"human">>)
    /\ Get(ContractOf(c), Key("translator")) = JUndef
    /\ ConfidenceOf(c) = -10
    /\ pc[c] = "failed"

\* ------------------------------------------------------------------------
\* Properties of the contract id
\* ------------------------------------------------------------------------

\* The calls of a buildContract that have handed their content to
\* generateContractId.
Composed(c) ==
  /\ kind[c] \in {"buildContract", "legacyBuildContract"}
  /\ pc[c] \in {"hash", "validateContract", "returned", "failed"}

\* The string the buildContract of call c hands to generateContractId for a
\* request.
ContentOf(c, request) ==
  IF kind[c] = "buildContract" THEN ContentForId(request)
  ELSE LegacyContentForId(request)

\* The request with some of its fields changed.
Variants(request) ==
  { [request EXCEPT !.source_language = sl, !.tenant_id = tn, !.method = m,
                    !.workflow = w, !.flow = f] :
      sl \in {request.source_language, <<"pt">>},
      tn \in {request.tenant_id, <<"b">>},
      m \in {request.method, <<"hybrid">>},
      w \in {request.workflow, <<"fl">>},
      f \in {request.flow, <<"wf">>} }

\* Whether the id of call c is made of source_text, target_language, workflow
\* and flow alone.
IdFromTextTargetWorkflowFlow(c) ==
  \A other \in Variants(input[c]) :
    /\ (other.workflow = input[c].workflow /\ other.flow = input[c].flow)
         => generateContractId(ContentOf(c, other), idTime[c])
              = generateContractId(ContentOf(c, input[c]), idTime[c])
    /\ (other.workflow # input[c].workflow \/ other.flow # input[c].flow)
         => ContentOf(c, other) # ContentOf(c, input[c])

\* C22: the content hashed into a contract id is made of source_text,
\* target_language, workflow and flow: at one clock reading a request that
\* agrees with another on these four gets the same id, whatever its
\* source_language, tenant_id and method, and the content changes whenever
\* workflow or flow changes.
IdContentIsTextTargetWorkflowFlow ==
  \A c \in Calls : Composed(c) => IdFromTextTargetWorkflowFlow(c)

\* The buildContract of contract.ts composes its id in this way.
LegacyIdContentIsTextTargetWorkflowFlow ==
  \A c \in Calls :
    (Composed(c) /\ kind[c] = "legacyBuildContract")
      => IdFromTextTargetWorkflowFlow(c)

\* The id of the contract translateRequest returned to call c.
ReturnedId(c) == Get(ReturnedContract(c), Key("id")).v

ReadingSchema == {c \in Calls : pc[c] = "schema"}

\* C24: the schema is loaded and compiled at most once in a process: whatever
\* the interleaving of the calls that validate, concurrent first calls
\* included, schema.json is read once, so no two reads of it are ever under
\* way and none starts once the validator is cached.
SchemaReadOnce ==
  /\ Cardinality(ReadingSchema) <= 1
  /\ validator => ReadingSchema = {}

\* ------------------------------------------------------------------------
\* Properties of the object written
\* ------------------------------------------------------------------------

\* The call of translateRequest c wrote the envelope that passed validation.
PipelineWroteValidated(c) ==
  (kind[c] = "translateRequest" /\ pc[c] = "returned")
    => /\ validateEnvelope(envelope[c]).ok
       /\ ledger.content = LedgerLine(envelope[c])

\* The legacy handler c wrote the object it handed to saveLedgerEntry, and
\* buildContract had validated value[c].
LegacyWroteHandedOver(c) ==
  (kind[c] = "legacyTranslate" /\ pc[c] = "returned")
    => /\ validateContract(value[c]).ok
       /\ ledger.content = Append(JSONStringify(envelope[c]), LF)

LineFeeds(text) == Cardinality({i \in DOMAIN text : text[i] = LF})

\* C26: every successful append adds exactly one line: what is written is the
\* compact JSON of the envelope and one line feed, with no line feed inside
\* even when the texts hold line feeds, so the ledger grows by one line and
\* readLedger returns the envelope, its text intact, after those it returned
\* before.
AppendAddsOneLine ==
  [][\A c \in Calls :
       (pc[c] = "write" /\ pc'[c] = "returned")
         => LET old == ledger.content
                new == ledger'.content
                added == SubSeq(new, Len(old) + 1, Len(new))
                before == readLedger(ledger, "")
                after == readLedger(ledger', "") IN
            /\ SubSeq(new, 1, Len(old)) = old
            /\ Len(added) > 1
            /\ added[Len(added)] = LF
            /\ LineFeeds(added) = 1
            /\ LineFeeds(new) = LineFeeds(old) + 1
            /\ after.outcome = "returned"
            /\ Len(after.value) = Len(before.value) + 1
            /\ SameValue(after.value[Len(after.value)], envelope[c])
            /\ Get(Get(after.value[Len(after.value)], Key("contract")),
                   Key("source_text"))
                 = Get(ContractOf(c), Key("source_text"))]_vars

\* An envelope whose source_text holds a line feed was appended after
\* another line.
LineFeedTextAppendedSecond ==
  /\ Len(appended) = 2
  /\ LineFeeds(ledger.content) = 2
  /\ Contains(Get(Get(appended[2], Key("contract")), Key("source_text")).v, <<LF>>)

\* ------------------------------------------------------------------------
\* Properties of the lines read
\* ------------------------------------------------------------------------

\* The lines of a text that hold at least one character, in their order.
FilledLines(content) == SelectSeq(Split(content), NonEmpty)

\* The lines of a text that hold more than white space, in their order.
WrittenLines(content) == SelectSeq(Split(content), NonBlank)

\* C27: readLedger splits the file on the line feed, discards every blank
\* line wherever it stands (first, between two lines or last) and parses each
\* remaining line by itself: a file that differs from the file read only by
\* blank lines, empty or of white space, reads back the same.
BlankLinesMakeNoDifference ==
  [][\A r \in Reads :
       (pc[r] = "read" /\ Moves(r) /\ ledger.exists
          /\ error'[r] # <<"PermissionDenied">>)
         => \A other \in FoundContents :
              WrittenLines(other) = WrittenLines(ledger.content)
                => readLedger(File(other), "") = readLedger(ledger, "")]_vars

\* C27, amended: readLedger discards every empty line wherever it stands and
\* the white space at the two ends of the file, and parses each remaining
\* line by itself: a file that differs from the file read only by empty lines
\* reads back the same, and what is returned is the parsed lines, in their
\* order.
EmptyLinesMakeNoDifference ==
  [][\A r \in Reads :
       (pc[r] = "read" /\ Moves(r) /\ ledger.exists
          /\ error'[r] # <<"PermissionDenied">>)
         => /\ \A other \in FoundContents :
                 FilledLines(other) = FilledLines(ledger.content)
                   => readLedger(File(other), "") = readLedger(ledger, "")
            /\ pc'[r] = "returned"
                 => LET lines == WrittenLines(ledger.content) IN
                    /\ Len(value'[r].v) = Len(lines)
                    /\ \A i \in DOMAIN lines :
                         /\ JSONParse(lines[i]).ok
                         /\ JSONParse(lines[i]).val = value'[r].v[i]]_vars

\* readLedger returned two envelopes from a file of three lines, the first
\* or the second of them empty.
EmptyLineSkipped ==
  \E r \in Reads :
    /\ pc[r] = "returned"
    /\ Len(value[r].v) = 2
    /\ Len(Split(ledger.content)) = 3
    /\ \E k \in 1 .. 2 : Split(ledger.content)[k] = <<>>

\* ------------------------------------------------------------------------
\* Properties of the HTTP front end
\* ------------------------------------------------------------------------

\* The body asks for a human or hybrid translation and names no translator.
LacksTranslator(body) ==
  body.method \in {<<"human">>, <<"hybrid">>} /\ Falsy(body.translator)

\* C28: a body posted to /translate with method human or hybrid and no
\* translator is rejected by the validation of the request, before any call
\* of the provider and any access to the ledger, and the response is a 400
\* that carries the error message.
MissingTranslatorAnswered400 ==
  \A c \in Calls :
    (pc[c] # "idle" /\ LacksTranslator(input[c]))
      => /\ kind[c] = "handleTranslate"
         /\ ResponseStatus(c) = 400
         /\ error[c] = RequestTranslatorMessage
         /\ translateCalls[c] = 0
         /\ envelope[c] = JUndef
         /\ ~validator /\ ~dirExists /\ ledger = NoFile /\ appended = <<>>

\* A hybrid body with an empty translator was posted and answered.
HybridBodyRejected ==
  \E c \in Calls :
    /\ kind[c] = "handleTranslate"
    /\ input[c].method = <<"hybrid">>
    /\ input[c].translator = JStr(<<>>)
    /\ ResponseStatus(c) = 400

\* ------------------------------------------------------------------------
\* Termination of translateRequest
\* ------------------------------------------------------------------------

\* Call c of translateRequest has ended: the envelope is returned or the error
\* is thrown.
Ended(c) ==
  \/ pc[c] = "returned" /\ value[c] # JUndef /\ error[c] = <<>>
  \/ pc[c] = "failed" /\ value[c] = JUndef /\ error[c] # <<>>

\* C29: translateRequest, once invoked, runs to completion: when the provider
\* settles and the file operations complete, every call ends, returning the
\* envelope or throwing the error and never both; what has ended stays
\* ended, and the provider is called once, never again.
TranslateRequestRunsToCompletion ==
  /\ \A c \in Calls : [](pc[c] = "translate" => <>Ended(c))
  /\ [][\A c \in Calls :
          Ended(c) => (pc'[c] = pc[c] /\ value'[c] = value[c]
                         /\ error'[c] = error[c])]_vars
  /\ [](\A c \in Calls : kind[c] = "translateRequest" => translateCalls[c] = 1)

\* Both calls have ended, one returning its envelope and the other failing in
\* the write, the provider called once by each.
OneReturnedOneFailedInWrite ==
  \E c, d \in Calls :
    /\ Ended(c) /\ pc[c] = "returned"
    /\ Ended(d) /\ pc[d] = "failed"
    /\ error[d] = WriteFailure(<<"No space left on device (os error 28)">>)
    /\ translateCalls[c] = 1 /\ translateCalls[d] = 1

\* ------------------------------------------------------------------------
\* Properties of the string hashed into the id
\* ------------------------------------------------------------------------

\* The fields the buildContract of call c composes, in their order.
ComposedFields(c, request) ==
  IF kind[c] = "buildContract"
  THEN <<request.source_language, request.target_language, request.source_text>>
  ELSE <<request.source_text, request.target_language, request.workflow,
         request.flow>>

\* The string generateContractId hashes for a request at the clock reading of
\* call c.
CombinedOf(c, request) ==
  ContentOf(c, request) \o <<"_">> \o ClockText(idTime[c])

\* The place of source_text among the fields composed.
TextPlace(c) == IF kind[c] = "buildContract" THEN 3 ELSE 1

\* Of the fields composed, only source_text may hold a "_".
OnlyTextHoldsSeparator(c, request) ==
  \A i \in DOMAIN ComposedFields(c, request) :
    Contains(ComposedFields(c, request)[i], <<"_">>) => i = TextPlace(c)

\* C30: the string composed for the id encodes its fields without ambiguity:
\* at one clock reading two requests that differ in a composed field never
\* give the same string, also when the fields hold the "_" that joins them.
ComposedStringIsUnambiguous ==
  \A c \in Calls :
    Composed(c) =>
      \A other \in ComposeRequests :
        ComposedFields(c, other) # ComposedFields(c, input[c])
          => CombinedOf(c, other) # CombinedOf(c, input[c])

\* C30, amended: two requests that differ in a composed field give different
\* strings at one clock reading when no composed field but source_text holds
\* a "_".
ComposedStringIsUnambiguousForPlainFields ==
  \A c \in Calls :
    Composed(c) =>
      \A other \in ComposeRequests :
        (/\ OnlyTextHoldsSeparator(c, input[c])
         /\ OnlyTextHoldsSeparator(c, other)
         /\ ComposedFields(c, other) # ComposedFields(c, input[c]))
          => CombinedOf(c, other) # CombinedOf(c, input[c])

\* An id was composed for a request whose source_text holds a "_" and whose
\* other fields hold none.
SeparatorInTextComposed ==
  \E c \in Calls :
    /\ Composed(c)
    /\ pc[c] = "returned"
    /\ Contains(input[c].source_text, <<"_">>)
    /\ OnlyTextHoldsSeparator(c, input[c])

====
